---- MODULE Spec2Model ----
(***************************************************************************)
(* Surgical linker for ELF64-LE hosts (crates/linker/src/elf.rs).          *)
(*                                                                         *)
(* preprocess_elf analyses a host executable linked against a placeholder  *)
(* shared library and rewrites it; surgery_elf merges a compiled           *)
(* application object into the preprocessed binary.  Both are             *)
(* single-threaded batch passes; each specification below drives one       *)
(* component of the passes over a bounded family of inputs.                *)
(***************************************************************************)
EXTENDS Integers, Sequences, FiniteSets, TLC

VARIABLES
    pc,               \* position of the running pass
    overflow_checks,  \* the build panics on integer overflow (debug) or wraps
    host,             \* the host executable handed to preprocess_elf
    md,               \* the Metadata record
    deps,             \* ElfDynamicDeps of scan_elf_dynamic_deps
    out,              \* the output file: None while it does not exist
    app,              \* the application object handed to surgery_elf
    merge,            \* locals of surgery_elf_help
    probe,            \* last inputs/outputs of the operation under observation
    metadata          \* the metadata file: None while it does not exist

vars == <<pc, overflow_checks, host, md, deps, out, app, merge, probe, metadata>>

None == [none |-> TRUE]

(***************************************************************************)
(* Bounds of the model.                                                    *)
(***************************************************************************)
MaxRela == 2        \* entries of the host's .rela.dyn table
MaxDelta == 2       \* probe addresses lie within MaxDelta of a boundary
MaxPlt == 3         \* entries of the host's .rela.plt table
MaxNeeded == 3      \* needed-library entries of the host's dynamic table
MaxSyms == 2        \* symbols added to the host's symbol table
MaxAppRelocs == 2   \* relocations of the application's .data.rel.ro section
MaxCalls == 2       \* instructions of the host's .text section
MaxPhEntSize == 128 \* e_phentsize of the host's file header

(***************************************************************************)
(* Program constants.                                                      *)
(***************************************************************************)
MIN_SECTION_ALIGNMENT == 64
PLT_ADDRESS_OFFSET == 16
added_header_count == 3
Rela64Size == 24
Rel64Size == 16
Dyn64Size == 16
Sym64Size == 24

PT_LOAD == 1
PT_PHDR == 6
PT_GNU_STACK == 1685382481

DT_NULL == 0
DT_NEEDED == 1
DT_PLTRELSZ == 2
DT_PLTGOT == 3
DT_STRTAB == 5
DT_SYMTAB == 6
DT_RELA == 7
DT_RELASZ == 8
DT_JMPREL == 23
DT_RELACOUNT == 1879048185

SHT_PROGBITS == 1
SHT_RELA == 4
SHT_REL == 9

R_X86_64_NONE == 0
R_X86_64_GLOB_DAT == 6
R_X86_64_JUMP_SLOT == 7
R_X86_64_RELATIVE == 8

\* Values of the ELF format that the hosts carry and the linker never names.
ElfFormat ==
    [ PT_NULL |-> 0, PT_DYNAMIC |-> 2, SHT_NULL |-> 0, SHT_SYMTAB |-> 2, SHT_STRTAB |-> 3,
      SHT_DYNAMIC |-> 6, SHT_NOBITS |-> 8, SHT_DYNSYM |-> 11 ]

(***************************************************************************)
(* Generic helpers.                                                        *)
(***************************************************************************)
Max(S) == CHOOSE m \in S : \A o \in S : o <= m

Min(S) == CHOOSE m \in S : \A o \in S : m <= o

\* crate::align_by_constraint: round offset up to a multiple of constraint.
align_by_constraint(offset, constraint) ==
    IF offset % constraint = 0
    THEN offset
    ELSE offset + constraint - (offset % constraint)

\* crate::align_to_offset_by_constraint: the least address >= current_offset
\* that is congruent to target_offset modulo constraint.
align_to_offset_by_constraint(current_offset, target_offset, constraint) ==
    LET target_remainder == target_offset % constraint
        current_remainder == current_offset % constraint
    IN  IF target_remainder > current_remainder
        THEN current_offset + (target_remainder - current_remainder)
        ELSE IF target_remainder < current_remainder
        THEN current_offset + ((target_remainder + constraint) - current_remainder)
        ELSE current_offset

(***************************************************************************)
(* Address translation (elf.rs 591-619).                                   *)
(***************************************************************************)
\* update_physical_offset with the shift applied below the shift start
\* instead of from it on.
update_physical_offset_shift_below(m, offset) ==
    IF /\ 0 <= m.original_rela_paddr
       /\ m.original_rela_paddr <= offset /\ offset < m.original_rela_paddr + m.rela_size
    THEN m.new_rela_paddr + (offset - m.original_rela_paddr) + m.ph_shift_bytes
    ELSE offset + (IF offset < m.ph_physical_shift_start THEN m.ph_shift_bytes ELSE 0)
                + (IF m.new_rela_paddr <= offset THEN m.rela_size ELSE 0)

\* A negative original_rela_paddr stands for a wrapped difference, a value
\* above every offset of the file (see scan_program_headers).
update_physical_offset(m, offset) ==
    IF /\ 0 <= m.original_rela_paddr
       /\ m.original_rela_paddr <= offset /\ offset < m.original_rela_paddr + m.rela_size
    THEN m.new_rela_paddr + (offset - m.original_rela_paddr) + m.ph_shift_bytes
    ELSE offset + (IF m.ph_physical_shift_start <= offset THEN m.ph_shift_bytes ELSE 0)
                + (IF m.new_rela_paddr <= offset THEN m.rela_size ELSE 0)

\* update_virtual_offset without the room made for the moved table.
update_virtual_offset_no_gap(m, offset) ==
    IF m.original_rela_vaddr <= offset /\ offset < m.original_rela_vaddr + m.rela_size
    THEN m.new_rela_vaddr + (offset - m.original_rela_vaddr) + m.ph_shift_bytes
    ELSE offset + (IF m.ph_virtual_shift_start <= offset THEN m.ph_shift_bytes ELSE 0)

update_virtual_offset(m, offset) ==
    IF m.original_rela_vaddr <= offset /\ offset < m.original_rela_vaddr + m.rela_size
    THEN m.new_rela_vaddr + (offset - m.original_rela_vaddr) + m.ph_shift_bytes
    ELSE offset + (IF m.ph_virtual_shift_start <= offset THEN m.ph_shift_bytes ELSE 0)
                + (IF m.new_rela_vaddr <= offset THEN m.rela_size ELSE 0)


(***************************************************************************)
(* Maps (MutMap) are functions; insert overwrites.                         *)
(***************************************************************************)
EmptyMap == << >>

Insert(map, k, v) == (k :> v) @@ map

ContainsKey(map, k) == k \in DOMAIN map

\* The elements of a sequence, as a set.
Range(seq) == { seq[i] : i \in 1..Len(seq) }

(***************************************************************************)
(* Symbol names are sequences of characters, so that the trimming and      *)
(* splitting of is_roc_symbol / collect_roc_definitions act on them.       *)
(***************************************************************************)
RECURSIVE trim_start_underscores(_)
\* str::trim_start_matches('_'): every leading underscore goes.
trim_start_underscores(name) ==
    IF name # << >> /\ Head(name) = "_"
    THEN trim_start_underscores(Tail(name))
    ELSE name

\* name.split('@').next(): the part before the first '@'.
before_at(name) ==
    LET ats == { i \in 1..Len(name) : name[i] = "@" }
    IN  IF ats = {} THEN name ELSE SubSeq(name, 1, Min(ats) - 1)

starts_with(name, prefix) ==
    Len(name) >= Len(prefix) /\ SubSeq(name, 1, Len(prefix)) = prefix

RECURSIVE to_string(_)
to_string(name) ==
    IF name = << >> THEN "" ELSE Head(name) \o to_string(Tail(name))

RocPrefix == <<"r", "o", "c", "_">>

\* elf.rs 126-132.
is_roc_symbol(sym) == starts_with(trim_start_underscores(sym.name), RocPrefix)

\* elf.rs 134-136.
is_roc_definition(sym) == sym.kind = "defined" /\ is_roc_symbol(sym)

\* elf.rs 138-140.
is_roc_undefined(sym) == sym.kind = "undefined" /\ is_roc_symbol(sym)

\* elf.rs 158-169: roc_ functions that stand in for libc symbols.
direct_mapping(name) ==
    CASE name = "roc_memcpy" -> "memcpy"
      [] name = "roc_memset" -> "memset"
      [] name = "roc_memmove" -> "memmove"
      [] name = "roc_mmap" -> "mmap"
      [] name = "roc_getppid" -> "getppid"
      [] name = "roc_shm_open" -> "shm_open"
      [] OTHER -> ""

HasDirectMapping(name) ==
    name \in {"roc_memcpy", "roc_memset", "roc_memmove", "roc_mmap",
              "roc_getppid", "roc_shm_open"}

RECURSIVE collect_roc_definitions_from(_, _, _)
collect_roc_definitions_from(symbols, i, vaddresses) ==
    IF i > Len(symbols) THEN vaddresses
    ELSE IF ~is_roc_definition(symbols[i])
    THEN collect_roc_definitions_from(symbols, i + 1, vaddresses)
    ELSE
      LET sym == symbols[i]
          name == to_string(before_at(trim_start_underscores(sym.name)))
          v1 == IF HasDirectMapping(name)
                THEN Insert(vaddresses, direct_mapping(name), sym.address)
                ELSE vaddresses
      IN  collect_roc_definitions_from(symbols, i + 1, Insert(v1, name, sym.address))

\* collect_roc_definitions with the first symbol of the table skipped.
collect_roc_definitions_skip_first(symbols) ==
    collect_roc_definitions_from(symbols, 2, EmptyMap)

\* elf.rs 142-179.
collect_roc_definitions(symbols) ==
    collect_roc_definitions_from(symbols, 1, EmptyMap)

(***************************************************************************)
(* ELF records.                                                            *)
(***************************************************************************)
Ph(type, offset, vaddr, filesz, memsz, align) ==
    [p_type |-> type, p_offset |-> offset, p_vaddr |-> vaddr, p_paddr |-> vaddr,
     p_filesz |-> filesz, p_memsz |-> memsz, p_align |-> align]

ZeroPh == Ph(ElfFormat.PT_NULL, 0, 0, 0, 0, 0)

Dyn(tag, val) == [d_tag |-> tag, d_val |-> val]

Rela(offset, sym, type, addend) ==
    [r_offset |-> offset, r_sym |-> sym, r_type |-> type, r_addend |-> addend]

Sh(name, type, offset, addr, size, exec) ==
    [sh_name |-> name, sh_type |-> type, sh_offset |-> offset, sh_addr |-> addr,
     sh_size |-> size, exec |-> exec, compressed |-> FALSE]

Sym(name, kind, address, size) ==
    [name |-> name, kind |-> kind, address |-> address, size |-> size]

NullSym == Sym(<< >>, "null", 0, 0)

\* A decoded instruction: op_kind is iced's OpKind of operand 0 ("NearBranch",
\* "FarBranch" or "Other"), code is the opcode's operand kind (br64_4, ...).
Inst(ip, len, op_kind, code, target, indirect) ==
    [ip |-> ip, len |-> len, op_kind |-> op_kind, code |-> code,
     target |-> target, indirect |-> indirect]

(***************************************************************************)
(* The family of host executables.                                         *)
(*                                                                         *)
(* Every host of the family is laid out the same way (file offsets in      *)
(* Layout); the first load segment maps the file from offset 0 at vbase,   *)
(* the code and data segments lie vdelta and 2*vdelta further on.  The     *)
(* contents of the relocation tables, the dynamic table and the symbol     *)
(* tables are the parameters of MkHost.                                    *)
(***************************************************************************)
Layout ==
    [ phoff |-> 64, dynsym |-> 416, rela_dyn |-> 512, rela_plt |-> 704,
      dynstr |-> 896, plt |-> 1024, text |-> 1280, dynamic |-> 1536,
      got |-> 1792, got_plt |-> 1856, symtab |-> 1920, shstrtab |-> 2432,
      shoff |-> 2560,
      \* dynamic symbol indices
      app_sym1 |-> 1, app_sym2 |-> 2, libc_sym |-> 3,
      \* section indices
      sec_rela_dyn |-> 2, sec_rela_plt |-> 3, sec_plt |-> 5, sec_text |-> 6,
      sec_got |-> 8, sec_got_plt |-> 9,
      \* offsets of library paths in .dynstr
      str_placeholder |-> 1, str_libc |-> 11, str_libm |-> 21 ]

HostVaddr(p, off) ==
    p.vbase + off + (IF off >= Layout.dynamic THEN 2 * p.vdelta
                     ELSE IF off >= Layout.plt THEN p.vdelta ELSE 0)

HostDynsym ==
    << NullSym,
       Sym(<<"r", "o", "c", "_", "_", "m", "a", "i", "n", "F", "o", "r", "H", "o", "s", "t", "_", "1", "_", "e", "x", "p", "o", "s", "e", "d">>, "undefined", 0, 0),
       Sym(<<"r", "o", "c", "_", "_", "m", "a", "i", "n", "F", "o", "r", "H", "o", "s", "t", "_", "s", "i", "z", "e">>, "undefined", 0, 0),
       Sym(<<"m", "a", "l", "l", "o", "c">>, "undefined", 0, 0) >>

HostSymtab(p) ==
    p.extra_syms \o
    << NullSym,
       Sym(<<"m", "a", "i", "n">>, "defined", HostVaddr(p, Layout.text + 32), 16),
       Sym(<<"r", "o", "c", "_", "a", "l", "l", "o", "c">>, "defined", HostVaddr(p, Layout.text + 64), 16),
       Sym(<<"r", "o", "c", "_", "p", "a", "n", "i", "c">>, "defined", HostVaddr(p, Layout.text + 96), 16),
       Sym(<<"r", "o", "c", "_", "m", "e", "m", "c", "p", "y">>, "defined", HostVaddr(p, Layout.text + 128), 16),
       Sym(<<"r", "o", "c", "_", "_", "m", "a", "i", "n", "F", "o", "r", "H", "o", "s", "t", "_", "1", "_", "e", "x", "p", "o", "s", "e", "d">>, "undefined", 0, 0),
       Sym(<<"r", "o", "c", "_", "_", "m", "a", "i", "n", "F", "o", "r", "H", "o", "s", "t", "_", "s", "i", "z", "e">>, "undefined", 0, 0),
       Sym(<<"m", "a", "l", "l", "o", "c">>, "undefined", 0, 0) >>

\* One relocation entry of a kind; slot makes its r_offset (a GOT slot)
\* unique within the host.
RelaOfKind(p, kind, slot) ==
    LET gotslot == HostVaddr(p, Layout.got + 8 * slot)
    IN  CASE kind = "JS1" -> Rela(gotslot, Layout.app_sym1, R_X86_64_JUMP_SLOT, 0)
          [] kind = "JS2" -> Rela(gotslot, Layout.app_sym2, R_X86_64_JUMP_SLOT, 0)
          [] kind = "JSL" -> Rela(gotslot, Layout.libc_sym, R_X86_64_JUMP_SLOT, 0)
          [] kind = "GD1" -> Rela(gotslot, Layout.app_sym1, R_X86_64_GLOB_DAT, 0)
          [] kind = "GD2" -> Rela(gotslot, Layout.app_sym2, R_X86_64_GLOB_DAT, 0)
          [] kind = "GDL" -> Rela(gotslot, Layout.libc_sym, R_X86_64_GLOB_DAT, 0)
          [] kind = "REL" -> Rela(gotslot, 0, R_X86_64_RELATIVE,
                                  HostVaddr(p, Layout.text + 8 * slot))

RelaTable(p, kinds, slot0) ==
    [ i \in 1..Len(kinds) |-> RelaOfKind(p, kinds[i], slot0 + i - 1) ]

RelativeCount(kinds) == Cardinality({ i \in 1..Len(kinds) : kinds[i] = "REL" })

\* The dynamic table of a host (terminator included): the needed-library
\* entries of needed, in that order, then the address and size tags.
HostDyns(p) ==
    [ i \in 1..Len(p.needed) |-> Dyn(DT_NEEDED, p.needed[i]) ]
    \o << Dyn(DT_STRTAB, HostVaddr(p, Layout.dynstr)),
          Dyn(DT_SYMTAB, HostVaddr(p, Layout.dynsym)),
          Dyn(DT_PLTGOT, HostVaddr(p, Layout.got_plt)) >>
    \o (IF Len(p.relaDyn) > 0
        THEN << Dyn(DT_RELA, HostVaddr(p, Layout.rela_dyn)),
                Dyn(DT_RELASZ, Len(p.relaDyn) * Rela64Size),
                Dyn(DT_RELACOUNT, RelativeCount(p.relaDyn)) >>
        ELSE << >>)
    \o << Dyn(DT_JMPREL, HostVaddr(p, Layout.rela_plt)),
          Dyn(DT_PLTRELSZ, Len(p.relaPlt) * Rela64Size),
          Dyn(DT_NULL, 0) >>

\* Section header table.  Section index = position - 1.
HostShdrs(p) ==
    << Sh(<< >>, ElfFormat.SHT_NULL, 0, 0, 0, FALSE),
       Sh(<<".", "d", "y", "n", "s", "y", "m">>, ElfFormat.SHT_DYNSYM, Layout.dynsym, HostVaddr(p, Layout.dynsym),
          Len(HostDynsym) * Sym64Size, FALSE),
       Sh(<<".", "r", "e", "l", "a", ".", "d", "y", "n">>, SHT_RELA, Layout.rela_dyn, HostVaddr(p, Layout.rela_dyn),
          Len(p.relaDyn) * Rela64Size, FALSE),
       Sh(<<".", "r", "e", "l", "a", ".", "p", "l", "t">>, SHT_RELA, Layout.rela_plt, HostVaddr(p, Layout.rela_plt),
          Len(p.relaPlt) * Rela64Size, FALSE),
       Sh(<<".", "d", "y", "n", "s", "t", "r">>, ElfFormat.SHT_STRTAB, Layout.dynstr, HostVaddr(p, Layout.dynstr), 128, FALSE),
       Sh(<<".", "p", "l", "t">>, SHT_PROGBITS, Layout.plt, HostVaddr(p, Layout.plt), 256, TRUE),
       Sh(<<".", "t", "e", "x", "t">>, SHT_PROGBITS, Layout.text, HostVaddr(p, Layout.text), 256, TRUE),
       Sh(<<".", "d", "y", "n", "a", "m", "i", "c">>, ElfFormat.SHT_DYNAMIC, Layout.dynamic, HostVaddr(p, Layout.dynamic),
          Len(HostDyns(p)) * Dyn64Size, FALSE),
       Sh(<<".", "g", "o", "t">>, SHT_PROGBITS, Layout.got, HostVaddr(p, Layout.got), 16, FALSE),
       Sh(<<".", "g", "o", "t", ".", "p", "l", "t">>, SHT_PROGBITS, Layout.got_plt, HostVaddr(p, Layout.got_plt),
          16, FALSE),
       Sh(<<".", "s", "y", "m", "t", "a", "b">>, ElfFormat.SHT_SYMTAB, Layout.symtab, 0, Len(HostSymtab(p)) * Sym64Size, FALSE),
       Sh(<<".", "s", "h", "s", "t", "r", "t", "a", "b">>, ElfFormat.SHT_STRTAB, Layout.shstrtab, 0, 64, FALSE) >>

HostPhdrs(p) ==
    << Ph(PT_PHDR, Layout.phoff, p.vbase + Layout.phoff, 336, 336, 8),
       Ph(PT_LOAD, 0, p.vbase, 1024, 1024, 4096),
       Ph(PT_LOAD, Layout.plt, HostVaddr(p, Layout.plt), 512, 512, 4096),
       Ph(PT_LOAD, Layout.dynamic, HostVaddr(p, Layout.dynamic), 384, 512, 4096),
       Ph(ElfFormat.PT_DYNAMIC, Layout.dynamic, HostVaddr(p, Layout.dynamic), 256, 256, 8),
       Ph(PT_GNU_STACK, 0, 0, 0, 0, 16) >>

\* The i-th stub of the PLT (stub 0 is the resolver trampoline).
PltStubVaddr(p, i) == HostVaddr(p, Layout.plt) + i * PLT_ADDRESS_OFFSET

\* The code of .plt: per stub an indirect jump through the GOT, a push and a
\* near jump back to stub 0.
RECURSIVE PltInsts(_, _, _)
PltInsts(p, i, n) ==
    IF i > n THEN << >>
    ELSE << Inst(PltStubVaddr(p, i), 6, "Other", "mem", 0, TRUE),
            Inst(PltStubVaddr(p, i) + 6, 5, "Other", "imm", 0, FALSE),
            Inst(PltStubVaddr(p, i) + 11, 5, "NearBranch", "br64_4",
                 PltStubVaddr(p, 0), FALSE) >>
         \o PltInsts(p, i + 1, n)

\* A call site of the host's .text: a branch of the given form to a stub.
CallSite(p, ip, form, stub) ==
    CASE form = "call32" -> Inst(ip, 5, "NearBranch", "br64_4", PltStubVaddr(p, stub), FALSE)
      [] form = "jmp32" -> Inst(ip, 5, "NearBranch", "br64_4", PltStubVaddr(p, stub), FALSE)
      [] form = "jmp8" -> Inst(ip, 2, "NearBranch", "br64_1", PltStubVaddr(p, stub), FALSE)
      [] form = "call16" -> Inst(ip, 4, "NearBranch", "br16_2", PltStubVaddr(p, stub), FALSE)
      [] form = "jmp8_16" -> Inst(ip, 3, "NearBranch", "br16_1", PltStubVaddr(p, stub), FALSE)
      [] form = "indirect" -> Inst(ip, 6, "Other", "mem", 0, TRUE)
      [] form = "far" -> Inst(ip, 7, "FarBranch", "farbr", 0, FALSE)
      [] form = "other" -> Inst(ip, 3, "Other", "reg", 0, FALSE)

\* .text: the call sites of calls (pairs <<form, stub>>), 8 bytes apart.
TextInsts(p, calls) ==
    [ i \in 1..Len(calls) |->
        CallSite(p, HostVaddr(p, Layout.text) + 8 * (i - 1), calls[i][1], calls[i][2]) ]

MkHost(p) ==
    [ e_phoff |-> Layout.phoff, e_phentsize |-> 56, e_phnum |-> 6,
      e_shoff |-> Layout.shoff, e_shentsize |-> 64, e_shnum |-> 12,
      e_entry |-> HostVaddr(p, Layout.text),
      len |-> Layout.shoff + 12 * 64,
      phdrs |-> HostPhdrs(p),
      shdrs |-> HostShdrs(p),
      shared_lib |-> p.shared_lib,
      dyns |-> HostDyns(p),
      dynstr |-> (Layout.str_placeholder :> <<"platform", "libapp.so">>)
                 @@ (Layout.str_libc :> <<"libc.so.6">>)
                 @@ (Layout.str_libm :> <<"usr", "lib", "libm.so.6">>),
      dynsym |-> HostDynsym,
      symtab |-> HostSymtab(p),
      relas |-> (Layout.sec_rela_dyn :> RelaTable(p, p.relaDyn, 0))
                @@ (Layout.sec_rela_plt :> RelaTable(p, p.relaPlt, Len(p.relaDyn))),
      code |-> (Layout.sec_plt :> PltInsts(p, 0, Len(p.relaPlt)))
               @@ (Layout.sec_text :> TextInsts(p, p.calls)),
      got |-> (Layout.sec_got :> << HostVaddr(p, Layout.text + 64), 0 >>)
              @@ (Layout.sec_got_plt :>
                    << HostVaddr(p, Layout.dynamic), PltStubVaddr(p, 1) + 6 >>) ]

(***************************************************************************)
(* Metadata (elf.rs 59-85) as Default::default() leaves it.                *)
(***************************************************************************)
DefaultMetadata ==
    [ app_functions |-> << >>,
      plt_addresses |-> EmptyMap,
      surgeries |-> EmptyMap,
      dynamic_symbol_indices |-> EmptyMap,
      static_symbol_indices |-> EmptyMap,
      roc_symbol_vaddresses |-> EmptyMap,
      exec_len |-> 0,
      load_align_constraint |-> 0,
      last_vaddr |-> 0,
      dynamic_section_offset |-> 0,
      dynamic_section_count |-> 0,
      dynamic_symbol_table_section_offset |-> 0,
      symbol_table_section_offset |-> 0,
      symbol_table_size |-> 0,
      original_rela_paddr |-> 0,
      original_rela_vaddr |-> 0,
      new_rela_paddr |-> 0,
      new_rela_vaddr |-> 0,
      rela_size |-> 0,
      rela_section_index |-> 0,
      ph_physical_shift_start |-> 0,
      ph_virtual_shift_start |-> 0,
      ph_shift_bytes |-> 0 ]

(***************************************************************************)
(* Views of an object file (the object crate's accessors).                 *)
(***************************************************************************)
\* Symbols of a table with their symbol index (position - 1).
Indexed(symbols) ==
    [ i \in 1..Len(symbols) |->
        [ index |-> i - 1, name |-> symbols[i].name, kind |-> symbols[i].kind,
          address |-> symbols[i].address, size |-> symbols[i].size ] ]

\* section_by_name: the index of the first section of that name, -1 if none.
section_by_name(h, name) ==
    LET hits == { i \in 1..Len(h.shdrs) : h.shdrs[i].sh_name = name }
    IN  IF hits = {} THEN -1 ELSE Min(hits) - 1

RECURSIVE dynamic_relocations_from(_, _)
dynamic_relocations_from(h, i) ==
    IF i > Len(h.shdrs) THEN << >>
    ELSE (IF h.shdrs[i].sh_type = SHT_RELA THEN h.relas[i - 1] ELSE << >>)
         \o dynamic_relocations_from(h, i + 1)

\* dynamic_relocations(): the entries of every relocation section that is
\* linked to .dynsym, in section order.
dynamic_relocations(h) == dynamic_relocations_from(h, 1)

\* The sections of kind Text, in section order.
text_sections(h) ==
    SelectSeq([ i \in 1..Len(h.shdrs) |-> i - 1 ],
              LAMBDA s : h.shdrs[s + 1].sh_type = SHT_PROGBITS /\ h.shdrs[s + 1].exec)

(***************************************************************************)
(* preprocess_elf: symbols and PLT (elf.rs 434-477).                       *)
(***************************************************************************)
app_syms_of(h) == SelectSeq(Indexed(h.dynsym), is_roc_undefined)

\* plt_relocs_of without the filter on the relocation type.
plt_relocs_of_any_kind(h) == dynamic_relocations(h)

\* elf.rs 441-453: the relocations of kind Elf(7), R_X86_64_JUMP_SLOT.
plt_relocs_of(h) ==
    SelectSeq(dynamic_relocations(h), LAMBDA r : r.r_type = R_X86_64_JUMP_SLOT)

RECURSIVE discover_plt(_, _, _, _, _, _)
\* elf.rs 454-467: acc holds app_func_addresses and plt_addresses.
discover_plt(plt_relocs, i, app_syms, plt_address, plt_offset, acc) ==
    IF i >= Len(plt_relocs) THEN acc
    ELSE
      LET reloc == plt_relocs[i + 1]
          hits == { k \in 1..Len(app_syms) : app_syms[k].index = reloc.r_sym }
          func_address == (i + 1) * PLT_ADDRESS_OFFSET + plt_address
          func_offset == (i + 1) * PLT_ADDRESS_OFFSET + plt_offset
          acc1 == IF hits = {} THEN acc
                  ELSE LET name == to_string(app_syms[Min(hits)].name)
                       IN  [ app_func_addresses |->
                               Insert(acc.app_func_addresses, func_address, name),
                             plt_addresses |->
                               Insert(acc.plt_addresses, name,
                                      <<func_offset, func_address>>) ]
      IN  discover_plt(plt_relocs, i + 1, app_syms, plt_address, plt_offset, acc1)

RECURSIVE index_by_name(_, _, _)
\* elf.rs 469-477: name -> symbol index, later symbols overwrite earlier ones.
index_by_name(syms, i, map) ==
    IF i > Len(syms) THEN map
    ELSE index_by_name(syms, i + 1, Insert(map, to_string(syms[i].name), syms[i].index))

(***************************************************************************)
(* Surgeries (elf.rs 181-350).                                             *)
(***************************************************************************)
SurgeryEntry(file_offset, virtual_offset, size) ==
    [ file_offset |-> file_offset, virtual_offset |-> virtual_offset, size |-> size ]

Relative(a) == [ kind |-> "Relative", a |-> a ]

Absolute == [ kind |-> "Absolute", a |-> 0 ]

\* elf.rs 188-203.
Surgeries_new(app_syms) ==
    [ n \in { to_string(app_syms[k].name) : k \in 1..Len(app_syms) } |-> << >> ]

\* elf.rs 291-301: the size of the branch operand, 0 for an unknown kind.
op_size_of(code) ==
    CASE code \in {"br16_1", "br32_1"} -> 1
      [] code = "br16_2" -> 2
      [] code \in {"br32_4", "br64_4"} -> 4
      [] OTHER -> 0

RECURSIVE append_text_section(_, _, _, _, _)
\* elf.rs 236-349 over the instructions insts of section sec; the result is
\* the surgeries map, or None when the pass aborts.
append_text_section(sec, insts, i, app_func_addresses, surgeries) ==
    IF i > Len(insts) THEN surgeries
    ELSE
      LET inst == insts[i]
          next_ip == inst.ip + inst.len
      IN  IF inst.op_kind = "NearBranch"
          THEN IF ContainsKey(app_func_addresses, inst.target)
               THEN IF sec.compressed \/ op_size_of(inst.code) = 0
                    THEN None
                    ELSE
                      LET func_name == app_func_addresses[inst.target]
                          op_size == op_size_of(inst.code)
                          offset == ((next_ip - op_size) - sec.sh_addr) + sec.sh_offset
                      IN  append_text_section(sec, insts, i + 1, app_func_addresses,
                            [surgeries EXCEPT ![func_name] =
                               Append(@, SurgeryEntry(offset, Relative(next_ip), op_size))])
               ELSE append_text_section(sec, insts, i + 1, app_func_addresses, surgeries)
          ELSE IF inst.op_kind = "FarBranch"
          THEN None
          ELSE append_text_section(sec, insts, i + 1, app_func_addresses, surgeries)

\* emit_indirect_warning without the test of the flag.
emit_indirect_warning_each(inst, indirect_warning_given, verbose) ==
    inst.op_kind \notin {"NearBranch", "FarBranch"} /\ inst.indirect /\ verbose

\* elf.rs 329-335: is the advisory printed for the instruction?
emit_indirect_warning(inst, indirect_warning_given, verbose) ==
    /\ inst.op_kind \notin {"NearBranch", "FarBranch"}
    /\ inst.indirect
    /\ ~indirect_warning_given
    /\ verbose

RECURSIVE append_text_sections_from(_, _, _, _, _)
append_text_sections_from(h, secs, k, app_func_addresses, surgeries) ==
    IF surgeries = None \/ k > Len(secs) THEN surgeries
    ELSE append_text_sections_from(h, secs, k + 1, app_func_addresses,
           append_text_section(h.shdrs[secs[k] + 1], h.code[secs[k]], 1,
                               app_func_addresses, surgeries))

\* append_text_sections that scans nothing when it reports what it does.
append_text_sections_when_quiet(h, app_func_addresses, surgeries, verbose) ==
    IF text_sections(h) = << >> THEN None
    ELSE IF verbose THEN surgeries
    ELSE append_text_sections_from(h, text_sections(h), 1, app_func_addresses, surgeries)

\* append_text_sections that stops after the first text section.
append_text_sections_first_only(h, app_func_addresses, surgeries, verbose) ==
    IF text_sections(h) = << >> THEN None
    ELSE append_text_sections_from(h, SubSeq(text_sections(h), 1, 1), 1, app_func_addresses,
                                   surgeries)

\* elf.rs 205-234; verbose only selects what is printed.
append_text_sections(h, app_func_addresses, surgeries, verbose) ==
    IF text_sections(h) = << >> THEN None
    ELSE append_text_sections_from(h, text_sections(h), 1, app_func_addresses, surgeries)

(***************************************************************************)
(* scan_elf_dynamic_deps (elf.rs 1068-1253).                               *)
(***************************************************************************)
\* Path::file_name: the last component of a path.
file_name(path) == path[Len(path)]

\* elf.rs 1110-1144: the number of dynamic entries before the terminator.
dynamic_lib_count_of(dyns) ==
    Min({ i \in 1..Len(dyns) : dyns[i].d_tag = DT_NULL }) - 1

\* elf.rs 1121-1140: the indices of the needed-library entries naming the
\* shared library; the loop keeps the last one.
shared_lib_hits(h, shared_lib) ==
    { i \in 0..(dynamic_lib_count_of(h.dyns) - 1) :
        /\ h.dyns[i + 1].d_tag = DT_NEEDED
        /\ file_name(h.dynstr[h.dyns[i + 1].d_val]) = file_name(shared_lib) }

\* elf.rs 1190-1206.
got_sections_of(h) ==
    LET gots == SelectSeq([ i \in 1..Len(h.shdrs) |-> i ],
                          LAMBDA i : starts_with(h.shdrs[i].sh_name, <<".", "g", "o", "t">>))
    IN  [ k \in 1..Len(gots) |->
            [ offset |-> h.shdrs[gots[k]].sh_offset, size |-> h.shdrs[gots[k]].sh_size ] ]

\* The relocations of one type that target an application symbol, each as
\* the (name, index) of the symbol (elf.rs 1208-1244).
app_relocs_of(h, app_syms, type) ==
    LET relocs == SelectSeq(dynamic_relocations(h),
                     LAMBDA r : r.r_type = type
                                /\ \E k \in 1..Len(app_syms) : app_syms[k].index = r.r_sym)
    IN  [ i \in 1..Len(relocs) |->
            LET sym == app_syms[Min({ k \in 1..Len(app_syms) :
                                        app_syms[k].index = relocs[i].r_sym })]
            IN  [ name |-> to_string(sym.name), index |-> sym.index ] ]

\* The ElfDynamicDeps, or None when the scan panics.
scan_elf_dynamic_deps_deps(h, app_syms, shared_lib) ==
    IF \/ section_by_name(h, <<".", "d", "y", "n", "a", "m", "i", "c">>) < 0
       \/ section_by_name(h, <<".", "d", "y", "n", "s", "t", "r">>) < 0
       \/ section_by_name(h, <<".", "s", "y", "m", "t", "a", "b">>) < 0
       \/ section_by_name(h, <<".", "d", "y", "n", "s", "y", "m">>) < 0
       \/ shared_lib_hits(h, shared_lib) = {}
    THEN None
    ELSE [ got_app_syms |-> app_relocs_of(h, app_syms, R_X86_64_GLOB_DAT),
           got_sections |-> got_sections_of(h),
           app_sym_indices |->
             LET js == app_relocs_of(h, app_syms, R_X86_64_JUMP_SLOT)
             IN  [ i \in 1..Len(js) |-> js[i].index ],
           dynamic_lib_count |-> dynamic_lib_count_of(h.dyns),
           shared_lib_index |-> Max(shared_lib_hits(h, shared_lib)) ]

\* The fields of Metadata the scan sets (elf.rs 1093, 1168-1169, 1188).
scan_elf_dynamic_deps_md(h, m) ==
    LET sec(name) == h.shdrs[section_by_name(h, name) + 1]
    IN  [ m EXCEPT
            !.dynamic_section_offset =
                sec(<<".", "d", "y", "n", "a", "m", "i", "c">>).sh_offset,
            !.symbol_table_section_offset =
                sec(<<".", "s", "y", "m", "t", "a", "b">>).sh_offset,
            !.symbol_table_size = sec(<<".", "s", "y", "m", "t", "a", "b">>).sh_size,
            !.dynamic_symbol_table_section_offset =
                sec(<<".", "d", "y", "n", "s", "y", "m">>).sh_offset ]

(***************************************************************************)
(* gen_elf_le, geometry (elf.rs 633-677).                                  *)
(***************************************************************************)
\* The value of the last entry with the tag among the first count entries.
LastDynVal(dyns, count, tag, default) ==
    LET hits == { i \in 1..count : dyns[i].d_tag = tag }
    IN  IF hits = {} THEN default ELSE dyns[Max(hits)].d_val

\* The room for the added headers, rounded up by align_by_constraint.
ph_shift_bytes_rounded_up(ph_ent_size) ==
    align_by_constraint(ph_ent_size * added_header_count, MIN_SECTION_ALIGNMENT)

\* elf.rs 671-673.
ph_shift_bytes_of(ph_ent_size) ==
    LET raw == ph_ent_size * added_header_count
    IN  raw + (MIN_SECTION_ALIGNMENT - (raw % MIN_SECTION_ALIGNMENT))

gen_elf_le_geometry(m, h, dynamic_lib_count) ==
    LET rela_size == LastDynVal(h.dyns, dynamic_lib_count, DT_RELASZ, m.rela_size)
        shift == ph_shift_bytes_of(h.e_phentsize)
    IN  [ m EXCEPT
            !.original_rela_vaddr =
                LastDynVal(h.dyns, dynamic_lib_count, DT_RELA, m.original_rela_vaddr),
            !.rela_size = rela_size,
            !.new_rela_paddr = h.e_shoff,
            !.ph_shift_bytes = shift,
            !.ph_physical_shift_start = h.e_phoff + h.e_phnum * h.e_phentsize,
            !.exec_len = h.len + shift + rela_size ]

(***************************************************************************)
(* gen_elf_le, program headers (elf.rs 692-776).                           *)
(***************************************************************************)
RECURSIVE scan_program_headers(_, _, _, _, _)
\* elf.rs 697-714.  The result carries first_load_found; ok is FALSE when a
\* subtraction underflows in a build that checks for overflow.  Without the
\* checks the difference wraps: a negative original_rela_paddr v stands for
\* 2^64 + v.
scan_program_headers(phs, i, m, first_load_found, checks) ==
    IF i > Len(phs) THEN [ ok |-> TRUE, md |-> m, first_load_found |-> first_load_found ]
    ELSE
      LET ph == phs[i]
          first == ph.p_type = PT_LOAD /\ ph.p_offset = 0
          m1 == IF first
                THEN [ m EXCEPT !.load_align_constraint = ph.p_align,
                                !.ph_virtual_shift_start =
                                    m.ph_physical_shift_start + ph.p_vaddr ]
                ELSE m
          holds_rela == /\ ph.p_type = PT_LOAD
                        /\ 0 <= m1.original_rela_paddr
                        /\ ph.p_offset <= m1.original_rela_paddr
                        /\ m1.original_rela_paddr < ph.p_offset + ph.p_filesz
          virtual_shift == ph.p_vaddr - ph.p_offset
          underflow == holds_rela
                       /\ (virtual_shift < 0 \/ m1.original_rela_vaddr < virtual_shift)
          m2 == IF holds_rela
                THEN [ m1 EXCEPT !.original_rela_paddr =
                                     m1.original_rela_vaddr - virtual_shift ]
                ELSE m1
      IN  IF underflow /\ checks
          THEN [ ok |-> FALSE, md |-> m1, first_load_found |-> first_load_found \/ first ]
          ELSE scan_program_headers(phs, i + 1, m2, first_load_found \/ first, checks)

\* elf.rs 726-736.
last_segment_vaddr_of(phs) ==
    Max({ phs[i].p_vaddr + phs[i].p_memsz :
            i \in { k \in 1..Len(phs) : phs[k].p_type # PT_GNU_STACK } })

\* Every header moved through the translation functions, none grown.
shift_program_header_uniformly(m, ph) ==
    [ ph EXCEPT !.p_offset = update_physical_offset(m, @),
                !.p_vaddr = update_virtual_offset(m, @),
                !.p_paddr = update_virtual_offset(m, @) ]

\* elf.rs 745-761.
shift_program_header(m, ph) ==
    IF (ph.p_type = PT_LOAD /\ ph.p_offset = 0) \/ ph.p_type = PT_PHDR
    THEN [ ph EXCEPT !.p_filesz = @ + m.ph_shift_bytes, !.p_memsz = @ + m.ph_shift_bytes ]
    ELSE [ ph EXCEPT !.p_offset = update_physical_offset(m, @),
                     !.p_vaddr = update_virtual_offset(m, @),
                     !.p_paddr = update_virtual_offset(m, @) ]

\* elf.rs 764-773.
new_rela_segment(m) ==
    Ph(PT_LOAD, m.new_rela_paddr + m.ph_shift_bytes, m.new_rela_vaddr + m.ph_shift_bytes,
       m.rela_size, m.rela_size, m.load_align_constraint)

\* elf.rs 738-742 and 776.
gen_elf_le_new_rela(m, phs) ==
    LET new_rela_vaddr ==
          align_to_offset_by_constraint(last_segment_vaddr_of(phs) + m.load_align_constraint,
                                        m.new_rela_paddr, m.load_align_constraint)
    IN  [ m EXCEPT !.new_rela_vaddr = new_rela_vaddr,
                   !.last_vaddr = new_rela_vaddr + m.rela_size ]

gen_elf_le_program_headers(m, phs) ==
    [ i \in 1..Len(phs) |->
        IF i = Len(phs) THEN new_rela_segment(m) ELSE shift_program_header(m, phs[i]) ]

(***************************************************************************)
(* gen_elf_le, section headers and relocation tables (elf.rs 800-963).     *)
(*                                                                         *)
(* The output file is a record of the tables the pass edits in place; the  *)
(* table of section s is the one found at translate_physical(sh_offset).   *)
(* The hosts of the family carry no SHT_REL section.                       *)
(***************************************************************************)
\* elf.rs 808-814.
shift_section_header(m, sh) ==
    [ sh EXCEPT !.sh_offset = update_physical_offset(m, @),
                !.sh_addr = update_virtual_offset(m, @) ]

\* elf.rs 819-821: (index, original offset, size) of every SHT_RELA section.
rela_sections_of(shdrs) ==
    LET secs == SelectSeq([ i \in 1..Len(shdrs) |-> i ],
                          LAMBDA i : shdrs[i].sh_type = SHT_RELA)
    IN  [ k \in 1..Len(secs) |->
            [ sec_index |-> secs[k] - 1, sec_offset |-> shdrs[secs[k]].sh_offset,
              sec_size |-> shdrs[secs[k]].sh_size ] ]

\* elf.rs 849-858.
shift_rela(m, rel) ==
    LET r1 == [ rel EXCEPT !.r_offset = update_virtual_offset(m, @) ]
    IN  IF r1.r_type = R_X86_64_RELATIVE
        THEN [ r1 EXCEPT !.r_addend = update_virtual_offset(m, @) ]
        ELSE r1

\* push_got_surgeries that records nothing.
push_got_surgeries_none(surgeries, got_app_syms, k, r_sym, addend_addr) == surgeries

RECURSIVE push_got_surgeries(_, _, _, _, _)
\* elf.rs 863-876: one Absolute surgery per entry of got_app_syms whose
\* index is the relocation's symbol.
push_got_surgeries(surgeries, got_app_syms, k, r_sym, addend_addr) ==
    IF k > Len(got_app_syms) THEN surgeries
    ELSE push_got_surgeries(
           IF got_app_syms[k].index = r_sym
           THEN [ surgeries EXCEPT ![got_app_syms[k].name] =
                    Append(@, SurgeryEntry(addend_addr, Absolute, 8)) ]
           ELSE surgeries,
           got_app_syms, k + 1, r_sym, addend_addr)

RECURSIVE shift_relocations(_, _, _, _, _, _)
\* elf.rs 848-878 over the entries of one table, from entry i (0-based) on.
shift_relocations(m, relocations, i, sec_offset, got_app_syms, surgeries) ==
    IF i >= Len(relocations) THEN [ relocations |-> relocations, surgeries |-> surgeries ]
    ELSE
      LET rel == shift_rela(m, relocations[i + 1])
          to_app == /\ rel.r_type = R_X86_64_GLOB_DAT
                    /\ \E k \in 1..Len(got_app_syms) : got_app_syms[k].index = rel.r_sym
          rel1 == IF to_app
                  THEN [ rel EXCEPT !.r_sym = 0, !.r_type = R_X86_64_RELATIVE ]
                  ELSE rel
          addend_addr == sec_offset + i * Rela64Size + 16
          surgeries1 == IF rel.r_type = R_X86_64_GLOB_DAT
                        THEN push_got_surgeries(surgeries, got_app_syms, 1, rel.r_sym,
                                                addend_addr)
                        ELSE surgeries
      IN  shift_relocations(m, [ relocations EXCEPT ![i + 1] = rel1 ], i + 1,
                            sec_offset, got_app_syms, surgeries1)

RECURSIVE Descending(_)
\* sort() then reverse() of a set of indices.
Descending(S) == IF S = {} THEN << >> ELSE << Max(S) >> \o Descending(S \ { Max(S) })

\* elf.rs 884-897.
to_remove_of(relocations, app_sym_indices) ==
    Descending({ i \in 0..(Len(relocations) - 1) :
                   /\ relocations[i + 1].r_type = R_X86_64_JUMP_SLOT
                   /\ relocations[i + 1].r_sym \in Range(app_sym_indices) })

RECURSIVE swap_to_tail(_, _, _, _)
\* elf.rs 904-909: swap each index to remove with the tail cursor j and
\* neutralise the tail entry.  j -= 1 underflows once j is 0: the build
\* either panics (ok = FALSE) or wraps, after which no index is left.
swap_to_tail(relocations, to_remove, j, checks) ==
    IF to_remove = << >> THEN [ ok |-> TRUE, relocations |-> relocations ]
    ELSE
      LET i == Head(to_remove)
          swapped == [ relocations EXCEPT
                         ![i + 1] = relocations[j + 1],
                         ![j + 1] = [ relocations[i + 1] EXCEPT !.r_type = R_X86_64_NONE ] ]
      IN  IF j = 0
          THEN [ ok |-> ~checks, relocations |-> swapped ]
          ELSE swap_to_tail(swapped, Tail(to_remove), j - 1, checks)

\* elf.rs 884-909.  len - 1 underflows for an empty table.
remove_jump_slots(relocations, app_sym_indices, checks) ==
    IF Len(relocations) = 0
    THEN [ ok |-> ~checks, relocations |-> relocations ]
    ELSE swap_to_tail(relocations, to_remove_of(relocations, app_sym_indices),
                      Len(relocations) - 1, checks)

\* elf.rs 929-945: does a dynamic entry with the tag hold sec_offset?
dyn_names_section(dyns, count, tag, sec_offset) ==
    \E i \in 1..count : dyns[i].d_tag = tag /\ dyns[i].d_val = sec_offset

\* elf.rs 947-962.
shrink_dyn_sizes(dyns, count, is_rela_dyn, is_rela_plt, removed_size) ==
    [ i \in 1..Len(dyns) |->
        IF i <= count /\ dyns[i].d_tag = DT_RELASZ /\ is_rela_dyn
        THEN [ dyns[i] EXCEPT !.d_val = @ - removed_size ]
        ELSE IF i <= count /\ dyns[i].d_tag = DT_PLTRELSZ /\ is_rela_plt
        THEN [ dyns[i] EXCEPT !.d_val = @ - removed_size ]
        ELSE dyns[i] ]

\* elf.rs 842-963 for one relocation section.  st holds ok, md and out.
gen_elf_le_rela_section(st, sec, d, checks) ==
    LET m == st.md
        o == st.out
        table == o.relas[sec.sec_index]
        relocations == SubSeq(table, 1, sec.sec_size \div Rela64Size)
        shifted == shift_relocations(m, relocations, 0, sec.sec_offset, d.got_app_syms,
                                     m.surgeries)
        removed == remove_jump_slots(shifted.relocations, d.app_sym_indices, checks)
        removed_size ==
            Len(to_remove_of(shifted.relocations, d.app_sym_indices)) * Rela64Size
        m1 == [ m EXCEPT !.surgeries = shifted.surgeries ]
        o1 == [ o EXCEPT !.relas[sec.sec_index] = removed.relocations ]
        is_rela_dyn == dyn_names_section(o.dyns, d.dynamic_lib_count, DT_RELA, sec.sec_offset)
        is_rela_plt == dyn_names_section(o.dyns, d.dynamic_lib_count, DT_JMPREL, sec.sec_offset)
    IN  IF ~removed.ok
        THEN [ ok |-> FALSE, md |-> m1, out |-> o1 ]
        ELSE [ ok |-> TRUE,
               md |-> IF is_rela_dyn
                      THEN [ m1 EXCEPT !.rela_section_index = sec.sec_index ]
                      ELSE m1,
               out |-> [ o1 EXCEPT
                           !.shdrs[sec.sec_index + 1].sh_size = @ - removed_size,
                           !.dyns = shrink_dyn_sizes(o.dyns, d.dynamic_lib_count,
                                                     is_rela_dyn, is_rela_plt,
                                                     removed_size) ] ]

RECURSIVE gen_elf_le_rela_sections(_, _, _, _, _)
gen_elf_le_rela_sections(st, rela_sections, k, d, checks) ==
    IF ~st.ok \/ k > Len(rela_sections) THEN st
    ELSE gen_elf_le_rela_sections(gen_elf_le_rela_section(st, rela_sections[k], d, checks),
                                  rela_sections, k + 1, d, checks)

(***************************************************************************)
(* gen_elf_le, dynamic table, symbols, GOT, file header (elf.rs 966-1063). *)
(***************************************************************************)
\* elf.rs 976-1003: the tags whose value is an address (DT_INIT, DT_FINI,
\* DT_PLTGOT, DT_REL, DT_JMPREL, DT_INIT_ARRAY, DT_FINI_ARRAY,
\* DT_PREINIT_ARRAY, DT_RELA, DT_HASH, DT_STRTAB, DT_SYMTAB, DT_DEBUG,
\* DT_SYMTAB_SHNDX; the GNU and version tags lie above the model's hosts).
AddressTags ==
    { 12, 13, DT_PLTGOT, 17, DT_JMPREL, 25, 26, 32, DT_RELA, 4, DT_STRTAB, DT_SYMTAB,
      21, 34 }

\* elf.rs 966-1009.
shift_dyns(m, dyns, count) ==
    [ i \in 1..Len(dyns) |->
        IF i <= count /\ dyns[i].d_tag \in AddressTags
        THEN [ dyns[i] EXCEPT !.d_val = update_virtual_offset(m, @) ]
        ELSE dyns[i] ]

\* elf.rs 1011-1024.
shift_symbols(m, symbols) ==
    [ i \in 1..Len(symbols) |->
        IF i <= m.symbol_table_size \div Sym64Size
        THEN [ symbols[i] EXCEPT !.address = update_virtual_offset(m, @) ]
        ELSE symbols[i] ]

\* elf.rs 1026-1037.
shift_got(m, got) ==
    [ s \in DOMAIN got |-> [ i \in 1..Len(got[s]) |-> update_physical_offset(m, got[s][i]) ] ]

\* splice_dyns with the copy one entry short: the terminator stays behind.
splice_dyns_short(dyns, shared_lib_index, dynamic_lib_count) ==
    [ i \in 1..Len(dyns) |->
        IF shared_lib_index + 1 <= i /\ i < dynamic_lib_count
        THEN dyns[i + 1]
        ELSE dyns[i] ]

\* elf.rs 1041-1049: ptr::copy of the entries shared_lib_index + 1 .. count
\* (the terminator is entry count) onto shared_lib_index .. count - 1.
splice_dyns(dyns, shared_lib_index, dynamic_lib_count) ==
    [ i \in 1..Len(dyns) |->
        IF shared_lib_index + 1 <= i /\ i <= dynamic_lib_count
        THEN dyns[i + 1]
        ELSE dyns[i] ]

\* elf.rs 1052-1063.
shift_file_header(m, ehdr) ==
    [ ehdr EXCEPT !.e_shoff = update_physical_offset(m, @),
                  !.e_entry = update_virtual_offset(m, @),
                  !.e_phnum = @ + added_header_count ]

(***************************************************************************)
(* The output file.  open_mmap_mut creates the file when it is missing and *)
(* gives it the requested length; new bytes read as zero.                  *)
(***************************************************************************)
EmptyFile(len) ==
    [ len |-> len, flushed |-> FALSE, executable |-> FALSE,
      ehdr |-> [ e_phoff |-> 0, e_shoff |-> 0, e_entry |-> 0, e_phnum |-> 0,
                 e_shnum |-> 0 ],
      phdrs |-> << >>, shdrs |-> << >>, relas |-> EmptyMap, dyns |-> << >>,
      symtab |-> << >>, dynsym |-> << >>, got |-> EmptyMap,
      \* what the merger adds: the relocations appended to the moved table,
      \* the offsets of the copied sections, the bytes written over the rest
      app_relas |-> << >>, app_data |-> EmptyMap, bytes |-> EmptyMap ]

open_mmap_mut(file, len) ==
    IF file = None THEN EmptyFile(len) ELSE [ file EXCEPT !.len = len, !.flushed = FALSE ]

\* A file left at the output path by an earlier run.
StaleFile == [ EmptyFile(1) EXCEPT !.flushed = TRUE ]

(***************************************************************************)
(* Little-endian integers.                                                 *)
(***************************************************************************)
RECURSIVE to_le_bytes(_, _)
\* The n low bytes of v in two's complement, least significant first
\* ((target as i32).to_le_bytes() for n = 4, target.to_le_bytes() for n = 8).
to_le_bytes(v, n) ==
    IF n = 0 THEN << >> ELSE << v % 256 >> \o to_le_bytes(v \div 256, n - 1)

RECURSIVE from_le_bytes_unsigned(_)
from_le_bytes_unsigned(bytes) ==
    IF bytes = << >> THEN 0 ELSE Head(bytes) + 256 * from_le_bytes_unsigned(Tail(bytes))

\* The signed value of little-endian two's complement bytes.
from_le_bytes(bytes) ==
    IF bytes[Len(bytes)] >= 128
    THEN 0 - (1 + from_le_bytes_unsigned([ i \in 1..Len(bytes) |-> 255 - bytes[i] ]))
    ELSE from_le_bytes_unsigned(bytes)

(***************************************************************************)
(* Metadata on disk (elf.rs 42-120).  serialize_into / deserialize_from    *)
(* walk the value along its type: an integer is its little-endian bytes, a *)
(* string, vector or map its length as u64 followed by its elements, a     *)
(* struct or tuple its fields in declaration order, an enum the index of   *)
(* the variant as u32 followed by the variant's fields.  The bytes of a    *)
(* string are kept as one element of the buffer.                           *)
(***************************************************************************)
U64 == [ k |-> "int", bytes |-> 8 ]

U8 == [ k |-> "int", bytes |-> 1 ]

String == [ k |-> "string" ]

Vec(of) == [ k |-> "vec", of |-> of ]

MutMap(val) == [ k |-> "map", of |-> val ]

\* elf.rs 42-46.
VirtualOffsetType == [ k |-> "VirtualOffset" ]

\* elf.rs 48-53.
SurgeryEntryType ==
    [ k |-> "struct",
      fields |-> << <<"file_offset", U64>>, <<"virtual_offset", VirtualOffsetType>>,
                    <<"size", U8>> >> ]

\* elf.rs 59-85.
MetadataType ==
    [ k |-> "struct",
      fields |-> << <<"app_functions", Vec(String)>>,
                    <<"plt_addresses", MutMap([ k |-> "tuple", of |-> <<U64, U64>> ])>>,
                    <<"surgeries", MutMap(Vec(SurgeryEntryType))>>,
                    <<"dynamic_symbol_indices", MutMap(U64)>>,
                    <<"static_symbol_indices", MutMap(U64)>>,
                    <<"roc_symbol_vaddresses", MutMap(U64)>>,
                    <<"exec_len", U64>>,
                    <<"load_align_constraint", U64>>,
                    <<"last_vaddr", U64>>,
                    <<"dynamic_section_offset", U64>>,
                    <<"dynamic_section_count", U64>>,
                    <<"dynamic_symbol_table_section_offset", U64>>,
                    <<"symbol_table_section_offset", U64>>,
                    <<"symbol_table_size", U64>>,
                    <<"original_rela_paddr", U64>>,
                    <<"original_rela_vaddr", U64>>,
                    <<"new_rela_paddr", U64>>,
                    <<"new_rela_vaddr", U64>>,
                    <<"rela_size", U64>>,
                    <<"rela_section_index", U64>>,
                    <<"ph_physical_shift_start", U64>>,
                    <<"ph_virtual_shift_start", U64>>,
                    <<"ph_shift_bytes", U64>> >> ]

RECURSIVE keys_in_order(_)
\* The keys of a map in the order its iterator yields them.
keys_in_order(keys) ==
    IF keys = {} THEN << >>
    ELSE LET key == CHOOSE x \in keys : TRUE
         IN  << key >> \o keys_in_order(keys \ {key})

RECURSIVE serialize(_, _)
RECURSIVE serialize_all(_, _, _)
\* The elements items[i..] of one type, one after the other.
serialize_all(ty, items, i) ==
    IF i > Len(items) THEN << >>
    ELSE serialize(ty, items[i]) \o serialize_all(ty, items, i + 1)

RECURSIVE serialize_fields(_, _, _)
\* The fields fields[i..] of a struct value, each fields[j][1] with its type.
serialize_fields(fields, v, i) ==
    IF i > Len(fields) THEN << >>
    ELSE serialize(fields[i][2], v[fields[i][1]]) \o serialize_fields(fields, v, i + 1)

\* serialize_into for a value v of type ty.
serialize(ty, v) ==
    CASE ty.k = "int" -> to_le_bytes(v, ty.bytes)
      [] ty.k = "string" -> to_le_bytes(Len(v), 8) \o << v >>
      [] ty.k = "vec" -> to_le_bytes(Len(v), 8) \o serialize_all(ty.of, v, 1)
      [] ty.k = "tuple" ->
           serialize_fields([ i \in 1..Len(ty.of) |-> <<i, ty.of[i]>> ], v, 1)
      [] ty.k = "map" ->
           LET keys == keys_in_order(DOMAIN v)
               entry == [ k |-> "tuple", of |-> <<String, ty.of>> ]
           IN  to_le_bytes(Len(keys), 8)
               \o serialize_all(entry, [ i \in 1..Len(keys) |-> <<keys[i], v[keys[i]]>> ], 1)
      [] ty.k = "struct" -> serialize_fields(ty.fields, v, 1)
      [] ty.k = "VirtualOffset" ->
           IF v.kind = "Absolute" THEN to_le_bytes(0, 4)
           ELSE to_le_bytes(1, 4) \o to_le_bytes(v.a, 8)

\* A value read from a buffer and the position of the first byte behind
\* it; ok is FALSE when the buffer does not hold a value of the type there.
Read(val, at) == [ ok |-> TRUE, val |-> val, at |-> at ]

Invalid == [ ok |-> FALSE, val |-> << >>, at |-> 0 ]

RECURSIVE deserialize(_, _, _)
RECURSIVE deserialize_all_reversed(_, _, _, _)
\* deserialize_all with each element put before the ones read.
deserialize_all_reversed(ty, n, buf, st) ==
    IF ~st.ok \/ n = 0 THEN st
    ELSE LET item == deserialize(ty, buf, st.at)
         IN  deserialize_all_reversed(ty, n - 1, buf,
                                      IF item.ok THEN Read(<< item.val >> \o st.val, item.at)
                                      ELSE Invalid)

RECURSIVE deserialize_all(_, _, _, _)
\* n more elements of one type behind the ones read (st).
deserialize_all(ty, n, buf, st) ==
    IF ~st.ok \/ n = 0 THEN st
    ELSE LET item == deserialize(ty, buf, st.at)
         IN  deserialize_all(ty, n - 1, buf,
                             IF item.ok THEN Read(Append(st.val, item.val), item.at)
                             ELSE Invalid)

RECURSIVE deserialize_fields(_, _, _, _)
\* The fields fields[i..] of a struct behind the ones read (st).
deserialize_fields(fields, i, buf, st) ==
    IF ~st.ok \/ i > Len(fields) THEN st
    ELSE LET field == deserialize(fields[i][2], buf, st.at)
         IN  deserialize_fields(fields, i + 1, buf,
                                IF field.ok
                                THEN Read(Insert(st.val, fields[i][1], field.val), field.at)
                                ELSE Invalid)

RECURSIVE collect_entries(_, _, _)
\* FromIterator for a map: a later entry replaces an earlier one of its key.
collect_entries(entries, i, map) ==
    IF i > Len(entries) THEN map
    ELSE collect_entries(entries, i + 1, Insert(map, entries[i][1], entries[i][2]))

\* deserialize_from for a value of type ty at position at of buf.  A u64
\* above i64::MAX reads as the negative number that stands for it throughout
\* this module.
deserialize(ty, buf, at) ==
    CASE ty.k = "int" ->
           IF Len(buf) < at + ty.bytes - 1 THEN Invalid
           ELSE Read(IF ty.bytes = 8
                     THEN from_le_bytes(SubSeq(buf, at, at + ty.bytes - 1))
                     ELSE from_le_bytes_unsigned(SubSeq(buf, at, at + ty.bytes - 1)),
                     at + ty.bytes)
      [] ty.k = "string" ->
           LET len == deserialize(U64, buf, at)
           IN  IF ~len.ok \/ len.at > Len(buf) THEN Invalid
               ELSE Read(buf[len.at], len.at + 1)
      [] ty.k = "vec" ->
           LET len == deserialize(U64, buf, at)
           IN  IF ~len.ok THEN Invalid
               ELSE deserialize_all(ty.of, len.val, buf, Read(<< >>, len.at))
      [] ty.k = "tuple" ->
           deserialize_fields([ i \in 1..Len(ty.of) |-> <<i, ty.of[i]>> ], 1, buf,
                              Read(<< >>, at))
      [] ty.k = "map" ->
           LET entries == deserialize(Vec([ k |-> "tuple", of |-> <<String, ty.of>> ]),
                                      buf, at)
           IN  IF ~entries.ok THEN Invalid
               ELSE Read(collect_entries(entries.val, 1, EmptyMap), entries.at)
      [] ty.k = "struct" -> deserialize_fields(ty.fields, 1, buf, Read(<< >>, at))
      [] ty.k = "VirtualOffset" ->
           LET variant == deserialize([ k |-> "int", bytes |-> 4 ], buf, at)
               a == deserialize(U64, buf, variant.at)
           IN  IF ~variant.ok THEN Invalid
               ELSE IF variant.val = 0 THEN Read(Absolute, variant.at)
               ELSE IF variant.val = 1 /\ a.ok THEN Read(Relative(a.val), a.at)
               ELSE Invalid

\* elf.rs 88-94.
write_to_file(m) == serialize(MetadataType, m)

\* elf.rs 96-119: the Metadata, None when the file is missing or does not
\* deserialize.
read_from_file(file) ==
    IF file = None THEN None
    ELSE LET read == deserialize(MetadataType, file, 1)
         IN  IF read.ok THEN read.val ELSE None

(***************************************************************************)
(* preprocess_elf, step by step.                                           *)
(***************************************************************************)
Abort == pc' = "failed"

\* elf.rs 364-375.
ParseHost ==
    /\ pc = "start"
    /\ md' = [ DefaultMetadata EXCEPT
                 !.roc_symbol_vaddresses = collect_roc_definitions(host.symtab) ]
    /\ pc' = "symbols"
    /\ UNCHANGED <<overflow_checks, host, deps, out, app, merge, probe, metadata>>

\* elf.rs 409-477.
DiscoverPlt ==
    /\ pc = "symbols"
    /\ LET plt == section_by_name(host, <<".", "p", "l", "t">>)
       IN  IF plt < 0 \/ host.shdrs[plt + 1].compressed
           THEN Abort /\ UNCHANGED md
           ELSE
             LET app_syms == app_syms_of(host)
                 found == discover_plt(plt_relocs_of(host), 0, app_syms,
                                       host.shdrs[plt + 1].sh_addr,
                                       host.shdrs[plt + 1].sh_offset,
                                       [ app_func_addresses |-> EmptyMap,
                                         plt_addresses |-> EmptyMap ])
             IN  /\ md' = [ md EXCEPT
                              !.plt_addresses = found.plt_addresses,
                              !.app_functions =
                                  [ k \in 1..Len(app_syms) |-> to_string(app_syms[k].name) ],
                              !.dynamic_symbol_indices = index_by_name(app_syms, 1, EmptyMap),
                              !.static_symbol_indices =
                                  index_by_name(SelectSeq(Indexed(host.symtab),
                                                          is_roc_undefined), 1, EmptyMap) ]
                 /\ pc' = "disassemble"
    /\ UNCHANGED <<overflow_checks, host, deps, out, app, merge, probe, metadata>>

\* The app_func_addresses map of preprocess_elf (elf.rs 439-467).
app_func_addresses_of(h) ==
    LET plt == section_by_name(h, <<".", "p", "l", "t">>)
    IN  discover_plt(plt_relocs_of(h), 0, app_syms_of(h), h.shdrs[plt + 1].sh_addr,
                     h.shdrs[plt + 1].sh_offset,
                     [ app_func_addresses |-> EmptyMap, plt_addresses |-> EmptyMap ]
                    ).app_func_addresses

\* elf.rs 494-496.
Disassemble ==
    /\ pc = "disassemble"
    /\ \E verbose \in BOOLEAN :
         LET surgeries == append_text_sections(host, app_func_addresses_of(host),
                                               Surgeries_new(app_syms_of(host)), verbose)
         IN  IF surgeries = None
             THEN Abort /\ UNCHANGED md
             ELSE md' = [ md EXCEPT !.surgeries = surgeries ] /\ pc' = "scan"
    /\ UNCHANGED <<overflow_checks, host, deps, out, app, merge, probe, metadata>>

\* elf.rs 507-515.
ScanDynamicDeps ==
    /\ pc = "scan"
    /\ LET d == scan_elf_dynamic_deps_deps(host, app_syms_of(host), host.shared_lib)
       IN  IF d = None
           THEN Abort /\ UNCHANGED <<md, deps>>
           ELSE /\ deps' = d
                /\ md' = scan_elf_dynamic_deps_md(host, md)
                /\ pc' = "generate"
    /\ UNCHANGED <<overflow_checks, host, out, app, merge, probe, metadata>>

\* elf.rs 633-690: the geometry, the removal of an old output, the new
\* output with the file header and the program header table copied in.
GenElfCreate ==
    /\ pc = "generate"
    /\ md' = gen_elf_le_geometry(md, host, deps.dynamic_lib_count)
    /\ out' = [ open_mmap_mut(None, md'.exec_len) EXCEPT
                  !.ehdr = [ e_phoff |-> host.e_phoff, e_shoff |-> host.e_shoff,
                             e_entry |-> host.e_entry, e_phnum |-> host.e_phnum,
                             e_shnum |-> host.e_shnum ],
                  !.phdrs = Append(host.phdrs, ZeroPh) ]
    /\ pc' = "program_headers"
    /\ UNCHANGED <<overflow_checks, host, deps, app, merge, probe, metadata>>

\* elf.rs 692-776.
GenElfProgramHeaders ==
    /\ pc = "program_headers"
    /\ LET scan == scan_program_headers(out.phdrs, 1, md, FALSE, overflow_checks)
       IN  IF ~scan.ok \/ ~scan.first_load_found
           THEN Abort /\ md' = scan.md /\ UNCHANGED out
           ELSE /\ md' = gen_elf_le_new_rela(scan.md, out.phdrs)
                /\ out' = [ out EXCEPT !.phdrs = gen_elf_le_program_headers(md', @) ]
                /\ pc' = "section_headers"
    /\ UNCHANGED <<overflow_checks, host, deps, app, merge, probe, metadata>>

\* elf.rs 779-822: the body, the duplicate of the relocation table and the
\* section header table are copied, the section headers shifted.
GenElfSectionHeaders ==
    /\ pc = "section_headers"
    /\ out' = [ out EXCEPT
                  !.shdrs = [ i \in 1..Len(host.shdrs) |->
                                shift_section_header(md, host.shdrs[i]) ],
                  !.relas = host.relas,
                  !.dyns = host.dyns,
                  !.symtab = host.symtab,
                  !.dynsym = host.dynsym,
                  !.got = host.got ]
    /\ pc' = "relocations"
    /\ UNCHANGED <<overflow_checks, host, md, deps, app, merge, probe, metadata>>

\* elf.rs 837-963.
GenElfRelocations ==
    /\ pc = "relocations"
    /\ LET st == gen_elf_le_rela_sections([ ok |-> TRUE, md |-> md, out |-> out ],
                                          rela_sections_of(host.shdrs), 1, deps,
                                          overflow_checks)
       IN  /\ md' = st.md
           /\ out' = st.out
           /\ IF st.ok THEN pc' = "dynamic" ELSE Abort
    /\ UNCHANGED <<overflow_checks, host, deps, app, merge, probe, metadata>>

\* elf.rs 965-1065.
GenElfFinish ==
    /\ pc = "dynamic"
    /\ md' = [ md EXCEPT !.dynamic_section_count = deps.dynamic_lib_count - 1 ]
    /\ out' = [ out EXCEPT
                  !.dyns = splice_dyns(shift_dyns(md, @, deps.dynamic_lib_count),
                                       deps.shared_lib_index, deps.dynamic_lib_count),
                  !.symtab = shift_symbols(md, @),
                  !.got = shift_got(md, @),
                  !.ehdr = shift_file_header(md, @) ]
    /\ pc' = "save"
    /\ UNCHANGED <<overflow_checks, host, deps, app, merge, probe, metadata>>

\* elf.rs 549-558: the metadata is written, the mapping flushed and dropped.
SaveAndFlush ==
    /\ pc = "save"
    /\ metadata' = write_to_file(md)
    /\ out' = [ out EXCEPT !.flushed = TRUE ]
    /\ pc' = "preprocessed"
    /\ UNCHANGED <<overflow_checks, host, md, deps, app, merge, probe>>

Preprocess ==
    \/ ParseHost
    \/ DiscoverPlt
    \/ Disassemble
    \/ ScanDynamicDeps
    \/ GenElfCreate
    \/ GenElfProgramHeaders
    \/ GenElfSectionHeaders
    \/ GenElfRelocations
    \/ GenElfFinish
    \/ SaveAndFlush

(***************************************************************************)
(* Families of inputs.                                                     *)
(***************************************************************************)
RECURSIVE SeqsUpTo(_, _)
\* The sequences over S of length at most n.
SeqsUpTo(S, n) ==
    IF n = 0 THEN { << >> }
    ELSE LET shorter == SeqsUpTo(S, n - 1)
         IN  shorter \cup { Append(q, x) : q \in { r \in shorter : Len(r) = n - 1 }, x \in S }

\* A host whose two application symbols are called through the PLT.
BaseParams ==
    [ vbase |-> 0, vdelta |-> 0,
      relaDyn |-> << "REL" >>,
      relaPlt |-> << "JSL", "JS1", "JS2" >>,
      needed |-> << Layout.str_placeholder, Layout.str_libc >>,
      shared_lib |-> << "build", "libapp.so" >>,
      extra_syms |-> << >>,
      calls |-> << <<"call32", 2>>, <<"other", 0>>, <<"call32", 3>>, <<"call32", 1>> >> ]

InitWith(hosts, outs, apps) ==
    /\ pc = "start"
    /\ overflow_checks \in BOOLEAN
    /\ host \in hosts
    /\ md = DefaultMetadata
    /\ deps = None
    /\ out \in outs
    /\ app \in apps
    /\ merge = None
    /\ probe = None
    /\ metadata = None

(***************************************************************************)
(* SpecTranslate: the translation functions under every geometry that      *)
(* preprocessing produces for hosts of varying load address, segment       *)
(* spacing and relocation-table size.                                      *)
(***************************************************************************)
GeometryHosts ==
    { MkHost([ BaseParams EXCEPT !.vbase = vbase, !.vdelta = vdelta, !.relaDyn = relaDyn ]) :
        vbase \in {0, 4096}, vdelta \in {0, 4096},
        relaDyn \in SeqsUpTo({"REL"}, MaxRela) }

PhysicalBoundaries(m) ==
    { 0, m.ph_physical_shift_start, m.original_rela_paddr,
      m.original_rela_paddr + m.rela_size, m.new_rela_paddr }

VirtualBoundaries(m) ==
    { 0, m.ph_virtual_shift_start, m.original_rela_vaddr,
      m.original_rela_vaddr + m.rela_size, m.new_rela_vaddr }

\* The addresses within MaxDelta of a boundary.
Around(S) == { b + d : b \in S, d \in (0 - MaxDelta)..MaxDelta } \cap Nat

InitTranslate == InitWith(GeometryHosts, {None}, {None})

TranslatePhysical ==
    /\ pc = "preprocessed"
    /\ \E a, b \in Around(PhysicalBoundaries(md)) :
         probe' = [ kind |-> "physical", a |-> a, b |-> b,
                    ta |-> update_physical_offset(md, a),
                    tb |-> update_physical_offset(md, b) ]
    /\ pc' = "translated"
    /\ UNCHANGED <<overflow_checks, host, md, deps, out, app, merge, metadata>>

TranslateVirtual ==
    /\ pc = "preprocessed"
    /\ \E a, b \in Around(VirtualBoundaries(md)) :
         probe' = [ kind |-> "virtual", a |-> a, b |-> b,
                    ta |-> update_virtual_offset(md, a),
                    tb |-> update_virtual_offset(md, b) ]
    /\ pc' = "translated"
    /\ UNCHANGED <<overflow_checks, host, md, deps, out, app, merge, metadata>>

NextTranslate == Preprocess \/ TranslatePhysical \/ TranslateVirtual

SpecTranslate == InitTranslate /\ [][NextTranslate]_vars

\* Does x lie inside the original relocation-table range?
InRelaRange(m, kind, x) ==
    IF kind = "physical"
    THEN m.original_rela_paddr <= x /\ x < m.original_rela_paddr + m.rela_size
    ELSE m.original_rela_vaddr <= x /\ x < m.original_rela_vaddr + m.rela_size

Translated == pc = "translated" /\ probe # None

\* C3 (as stated): for every geometry and all a <= b, including a or b inside
\* the original relocation-table range, translate(a) <= translate(b).
C3_MonotonicEverywhere ==
    (Translated /\ probe.a <= probe.b) => probe.ta <= probe.tb

\* C3 (amended): translate_physical and translate_virtual are monotonic
\* non-decreasing over pairs a <= b that lie both outside or both inside the
\* original relocation-table range.
C3_MonotonicOffTable ==
    (/\ Translated
     /\ probe.a <= probe.b
     /\ InRelaRange(md, probe.kind, probe.a) <=> InRelaRange(md, probe.kind, probe.b))
    => probe.ta <= probe.tb

C3_Witness ==
    /\ Translated
    /\ probe.kind = "physical"
    /\ md.rela_size > 0
    /\ probe.a < md.original_rela_paddr
    /\ probe.b >= md.original_rela_paddr + md.rela_size
    /\ probe.ta < probe.tb

\* C4: two distinct untranslated addresses never translate to the same
\* address, under either translation function.
C4_Injective ==
    (Translated /\ probe.a # probe.b) => probe.ta # probe.tb

C4_Witness ==
    /\ Translated
    /\ md.rela_size > 0
    /\ InRelaRange(md, probe.kind, probe.a)
    /\ probe.b >= (IF probe.kind = "physical" THEN md.new_rela_paddr ELSE md.new_rela_vaddr)
    /\ probe.ta # probe.tb

(***************************************************************************)
(* SpecRela: preprocessing of hosts whose relocation tables hold every     *)
(* mix of entries for application symbols, library symbols and relative    *)
(* relocations.                                                            *)
(***************************************************************************)
RelaHosts ==
    { MkHost([ BaseParams EXCEPT !.relaDyn = relaDyn, !.relaPlt = relaPlt ]) :
        relaDyn \in SeqsUpTo({"REL", "GD1", "GDL"}, MaxRela),
        relaPlt \in SeqsUpTo({"JS1", "JS2", "JSL"}, MaxPlt) }

InitRela == InitWith(RelaHosts, {None}, {None})

SpecRela == InitRela /\ [][Preprocess]_vars

RelocationsDone == pc \in {"dynamic", "save", "preprocessed"}

\* Is the entry a jump slot of an application symbol (the entries removed)?
IsAppJumpSlot(rel) ==
    /\ rel.r_type = R_X86_64_JUMP_SLOT
    /\ is_roc_undefined(host.dynsym[rel.r_sym + 1])

\* The translated targets of the entries of section s that are kept, in the
\* order of the host's table.
KeptOriginal(s) ==
    LET kept == SelectSeq(host.relas[s], LAMBDA rel : ~IsAppJumpSlot(rel))
    IN  [ i \in 1..Len(kept) |-> update_virtual_offset(md, kept[i].r_offset) ]

\* The targets of the entries of the shrunken table of section s.
KeptOutput(s) ==
    [ i \in 1..(out.shdrs[s + 1].sh_size \div Rela64Size) |-> out.relas[s][i].r_offset ]

\* C5: in every relocation table the kept entries appear in the shrunken
\* table in the relative order they had in the original table.
C5_KeptOrderPreserved ==
    RelocationsDone => \A s \in DOMAIN host.relas : KeptOutput(s) = KeptOriginal(s)

\* The names of the application symbols that a jump-slot relocation targets.
JumpSlotTargets ==
    { to_string(host.dynsym[rel.r_sym + 1].name) :
        rel \in { r \in Range(dynamic_relocations(host)) : IsAppJumpSlot(r) } }

PltDiscovered == pc \notin {"start", "symbols", "failed"}

\* C8 (as stated): the key set of plt_addresses is exactly app_functions.
C8_PltKeysAreAppFunctions ==
    PltDiscovered => DOMAIN md.plt_addresses = Range(md.app_functions)

\* C8 (amended): the key set of plt_addresses is the set of application
\* symbols that a jump-slot relocation targets, a subset of app_functions;
\* app_functions holds every undefined roc_ dynamic symbol.
C8_PltKeysAreJumpSlotTargets ==
    PltDiscovered =>
        /\ DOMAIN md.plt_addresses = JumpSlotTargets
        /\ DOMAIN md.plt_addresses \subseteq Range(md.app_functions)
        /\ Range(md.app_functions) =
             { to_string(host.dynsym[i].name) :
                 i \in { k \in 1..Len(host.dynsym) : is_roc_undefined(host.dynsym[k]) } }

C8_Witness ==
    /\ pc = "preprocessed"
    /\ DOMAIN md.plt_addresses # {}
    /\ DOMAIN md.plt_addresses # Range(md.app_functions)
    /\ \E r \in Range(dynamic_relocations(host)) :
         r.r_type = R_X86_64_GLOB_DAT /\ r.r_sym = Layout.app_sym1

(***************************************************************************)
(* SpecDyn: preprocessing of hosts whose dynamic table names the           *)
(* placeholder library at every position among other libraries.            *)
(***************************************************************************)
\* Each library is needed at most once, as a static linker emits it.
NeededLists ==
    { q \in SeqsUpTo({Layout.str_placeholder, Layout.str_libc, Layout.str_libm}, MaxNeeded) :
        /\ q # << >>
        /\ \A i, j \in 1..Len(q) : q[i] = q[j] => i = j }

DynHosts ==
    { MkHost([ BaseParams EXCEPT !.needed = needed, !.vbase = vbase ]) :
        needed \in NeededLists, vbase \in {0, 4096} }

InitDyn == InitWith(DynHosts, {None}, {None})

SpecDyn == InitDyn /\ [][Preprocess]_vars

\* Does the dynamic entry name the placeholder library?
NamesPlaceholder(d) ==
    d.d_tag = DT_NEEDED /\ file_name(host.dynstr[d.d_val]) = file_name(host.shared_lib)

\* The index (0-based) of the host's entry that names the placeholder.
PlaceholderIndex ==
    CHOOSE i \in 0..(Len(host.dyns) - 1) : NamesPlaceholder(host.dyns[i + 1])

\* The entries before the terminator in the host's table.
OriginalCount == Len(host.dyns) - 1

\* Same entry, up to the translation of address values and the shrinking of
\* size values that preprocessing applies in place.
SameEntry(d, e) ==
    /\ d.d_tag = e.d_tag
    /\ d.d_tag \in {DT_NEEDED, DT_NULL, DT_RELACOUNT} => d.d_val = e.d_val

\* C6: the entry naming the placeholder is gone, every later entry (the
\* terminator included) is one slot down, every earlier entry is in place,
\* and the recorded count is the original count minus one.
C6_PlaceholderSpliced ==
    pc \in {"save", "preprocessed"} =>
        /\ \A i \in 1..OriginalCount : ~NamesPlaceholder(out.dyns[i])
        /\ \A i \in 1..PlaceholderIndex : SameEntry(out.dyns[i], host.dyns[i])
        /\ \A i \in (PlaceholderIndex + 1)..OriginalCount :
             SameEntry(out.dyns[i], host.dyns[i + 1])
        /\ out.dyns[OriginalCount].d_tag = DT_NULL
        /\ md.dynamic_section_count = OriginalCount - 1

C6_Witness ==
    /\ pc = "preprocessed"
    /\ PlaceholderIndex > 0
    /\ \E i \in (PlaceholderIndex + 2)..OriginalCount : host.dyns[i].d_tag = DT_NEEDED
    /\ out.dyns[PlaceholderIndex + 1].d_tag = DT_NEEDED

(***************************************************************************)
(* SpecSym: symbol collection over hosts whose symbol table holds extra    *)
(* symbols of every naming form.                                           *)
(***************************************************************************)
SymbolPool ==
    { Sym(<<"_", "r", "o", "c", "_", "d", "e", "a", "l", "l", "o", "c">>, "defined", 5001, 8),
      Sym(<<"_", "_", "r", "o", "c", "_", "r", "e", "a", "l", "l", "o", "c">>, "defined", 5002, 8),
      Sym(<<"r", "o", "c", "_", "m", "e", "m", "s", "e", "t", "@", "G", "L", "I", "B", "C", "_", "2", ".", "2", ".", "5">>, "defined", 5003, 8),
      Sym(<<"r", "o", "c", "_", "f", "x", "_", "p", "u", "t", "L", "i", "n", "e">>, "undefined", 0, 0),
      Sym(<<"m", "e", "m", "m", "o", "v", "e">>, "defined", 5005, 8),
      Sym(<<"r", "o", "c", "_", "m", "m", "a", "p">>, "defined", 5006, 8),
      Sym(<<"x", "r", "o", "c", "_", "a", "l", "l", "o", "c">>, "defined", 5007, 8),
      Sym(<<"r", "o", "c", "_", "p", "a", "n", "i", "c", "@", "v", "2">>, "defined", 5008, 8) }

SymHosts ==
    { MkHost([ BaseParams EXCEPT !.extra_syms = extra ]) :
        extra \in SeqsUpTo(SymbolPool, MaxSyms) }

InitSym == InitWith(SymHosts, {None}, {None})

SpecSym == InitSym /\ [][Preprocess]_vars

\* A name with one leading underscore and the "@version" suffix removed.
StripOne(name) ==
    before_at(IF name # << >> /\ Head(name) = "_" THEN Tail(name) ELSE name)

\* A name with every leading underscore and the "@version" suffix removed.
StripAll(name) == before_at(trim_start_underscores(name))

\* The keys the collection is to hold under a normalisation: the normalised
\* names of the defined roc_ symbols and their libc aliases.
ExpectedKeys(normalise(_)) ==
    LET names == { to_string(normalise(sym.name)) :
                     sym \in { x \in Range(host.symtab) :
                                 x.kind = "defined"
                                 /\ starts_with(normalise(x.name), RocPrefix) } }
    IN  names \cup { direct_mapping(n) : n \in { x \in names : HasDirectMapping(x) } }

Collected == pc \notin {"start", "failed"}

\* C7 (as stated): the keys are the names of the defined roc_ symbols with a
\* leading underscore and the version suffix removed, plus libc aliases.
C7_KeysStripOneUnderscore ==
    Collected => DOMAIN md.roc_symbol_vaddresses = ExpectedKeys(StripOne)

\* C7 (amended): the keys are the names, with every leading underscore and
\* the version suffix removed, of the defined symbols whose name has the
\* roc_ prefix once the underscores are removed, plus the libc alias of each
\* such name; undefined symbols add no key, and an alias maps to the address
\* of its host symbol, which is the address of a defined symbol of that name.
C7_KeysStripAllUnderscores ==
    Collected =>
        /\ DOMAIN md.roc_symbol_vaddresses = ExpectedKeys(StripAll)
        /\ \A n \in DOMAIN md.roc_symbol_vaddresses :
             HasDirectMapping(n) =>
               md.roc_symbol_vaddresses[direct_mapping(n)] = md.roc_symbol_vaddresses[n]
        /\ \A n \in ExpectedKeys(StripAll) :
             (\E x \in Range(host.symtab) : to_string(StripAll(x.name)) = n) =>
               \E x \in Range(host.symtab) :
                  /\ x.kind = "defined"
                  /\ to_string(StripAll(x.name)) = n
                  /\ md.roc_symbol_vaddresses[n] = x.address

C7_Witness ==
    /\ pc = "preprocessed"
    /\ "roc_realloc" \in DOMAIN md.roc_symbol_vaddresses
    /\ "memset" \in DOMAIN md.roc_symbol_vaddresses
    /\ md.roc_symbol_vaddresses["memcpy"] = md.roc_symbol_vaddresses["roc_memcpy"]

(***************************************************************************)
(* Bytes of the output file that the merger writes through the mapping.    *)
(***************************************************************************)
\* exec_mmap[at..][..n].copy_from_slice(data)
copy_from_slice(file, at, data) ==
    [ file EXCEPT !.bytes = [ k \in at..(at + Len(data) - 1) |-> data[k - at + 1] ] @@ @ ]

\* The n bytes of the file at an offset; bytes never written read as zero.
read_bytes(file, at, n) ==
    [ i \in 1..n |-> IF (at + i - 1) \in DOMAIN file.bytes THEN file.bytes[at + i - 1] ELSE 0 ]

(***************************************************************************)
(* The family of application objects.                                      *)
(***************************************************************************)
Reloc(offset, kind, size, target, addend) ==
    [ offset |-> offset, kind |-> kind, size |-> size, target |-> target,
      addend |-> addend ]

Section(name, size, file_size, relocations) ==
    [ name |-> name, size |-> size, file_size |-> file_size, relocations |-> relocations ]

\* Symbol indices and section indices of the application objects.
AppLayout ==
    [ main |-> 1, main_size |-> 2, str |-> 3, roc_alloc |-> 4, roc_panic |-> 5,
      divti3 |-> 6, counter |-> 7, memcpy |-> 8, missing |-> 9,
      sec_text |-> 0, sec_rodata |-> 1, sec_bss |-> 2, sec_relro |-> 3, sec_debug |-> 4,
      sec_eh |-> 5, sec_data |-> 6 ]

\* Section of a symbol: -1 for an undefined symbol.
AppSym(name, section, address, size) ==
    [ name |-> name, section |-> section, address |-> address, size |-> size ]

\* The symbols: the two functions the host requires, data, a definition of
\* roc_panic that the host defines too, and undefined references.
AppSymbols(defines_size) ==
    << AppSym(<< >>, -1, 0, 0),
       AppSym(<<"r", "o", "c", "_", "_", "m", "a", "i", "n", "F", "o", "r", "H", "o", "s", "t", "_", "1", "_", "e", "x", "p", "o", "s", "e", "d">>, AppLayout.sec_text, 0, 32),
       AppSym(<<"r", "o", "c", "_", "_", "m", "a", "i", "n", "F", "o", "r", "H", "o", "s", "t", "_", "s", "i", "z", "e">>, IF defines_size THEN AppLayout.sec_text ELSE -1,
              32, 16),
       AppSym(<<"s", "t", "r", "_", "c", "o", "n", "s", "t">>, AppLayout.sec_rodata, 8, 16),
       AppSym(<<"r", "o", "c", "_", "a", "l", "l", "o", "c">>, -1, 0, 0),
       AppSym(<<"r", "o", "c", "_", "p", "a", "n", "i", "c">>, AppLayout.sec_text, 48, 16),
       AppSym(<<"_", "_", "d", "i", "v", "t", "i", "3">>, -1, 0, 0),
       AppSym(<<"c", "o", "u", "n", "t", "e", "r">>, AppLayout.sec_bss, 0, 8),
       AppSym(<<"m", "e", "m", "c", "p", "y">>, -1, 0, 0),
       AppSym(<<"m", "i", "s", "s", "i", "n", "g", "_", "s", "y", "m">>, -1, 0, 0) >>

\* The relocations an application section may carry.
RelocPool ==
    { <<"Absolute", 64, AppLayout.main, 8>>,
      <<"Absolute", 64, AppLayout.roc_alloc, 0>>,
      <<"Absolute", 64, AppLayout.divti3, 0>>,
      <<"Relative", 32, AppLayout.roc_panic, -4>>,
      <<"PltRelative", 32, AppLayout.str, -4>>,
      <<"Relative", 64, AppLayout.memcpy, 0>>,
      <<"Relative", 16, AppLayout.str, 0>>,
      <<"Relative", 32, AppLayout.missing, 0>>,
      <<"Got", 32, AppLayout.str, 0>> }

\* An application whose .data.rel.ro section carries the relocations picks,
\* 8 bytes apart.
MkApp(picks, defines_size) ==
    LET relocs == [ i \in 1..Len(picks) |->
                      Reloc(8 * i, picks[i][1], picks[i][2], picks[i][3], picks[i][4]) ]
    IN  [ len |-> 1024,
          symbols |-> AppSymbols(defines_size),
          sections |->
            << Section(<<".", "t", "e", "x", "t">>, 64, 64,
                       << Reloc(4, "PltRelative", 32, AppLayout.roc_alloc, -4),
                          Reloc(12, "Relative", 32, AppLayout.str, -4),
                          Reloc(36, "PltRelative", 32, AppLayout.divti3, -4) >>),
               Section(<<".", "r", "o", "d", "a", "t", "a">>, 32, 32, << >>),
               Section(<<".", "b", "s", "s">>, 16, 0, << >>),
               Section(<<".", "d", "a", "t", "a", ".", "r", "e", "l", ".", "r", "o">>, 48, 48, relocs),
               Section(<<".", "d", "e", "b", "u", "g", "_", "i", "n", "f", "o">>, 32, 32,
                       << Reloc(0, "Absolute", 64, AppLayout.main, 0) >>),
               Section(<<".", "e", "h", "_", "f", "r", "a", "m", "e">>, 32, 32,
                       << Reloc(0, "Relative", 32, AppLayout.main, 0) >>),
               Section(<<".", "d", "a", "t", "a">>, 16, 16,
                       << Reloc(0, "Absolute", 64, AppLayout.counter, 0) >>) >> ]

(***************************************************************************)
(* surgery_elf_help, layout (elf.rs 1392-1508).                            *)
(***************************************************************************)
ends_with(name, suffix) ==
    Len(name) >= Len(suffix)
    /\ SubSeq(name, Len(name) - Len(suffix) + 1, Len(name)) = suffix

\* app_obj.sections(): the section indices, in order.
section_indices(a) == [ i \in 1..Len(a.sections) |-> i - 1 ]

\* elf.rs 1423-1429.
rodata_sections(a) ==
    SelectSeq(section_indices(a),
              LAMBDA s : \/ starts_with(a.sections[s + 1].name, <<".", "r", "o", "d", "a", "t", "a">>)
                         \/ ends_with(a.sections[s + 1].name, <<".", "r", "e", "l", ".", "r", "o">>))

\* elf.rs 1432-1435.
bss_sections(a) ==
    SelectSeq(section_indices(a), LAMBDA s : starts_with(a.sections[s + 1].name, <<".", "b", "s", "s">>))

\* elf.rs 1437-1440.
app_text_sections(a) ==
    SelectSeq(section_indices(a), LAMBDA s : starts_with(a.sections[s + 1].name, <<".", "t", "e", "x", "t">>))

\* rodata_sections.iter().chain(bss_sections.iter()).chain(text_sections.iter())
processed_sections(a) == rodata_sections(a) \o bss_sections(a) \o app_text_sections(a)

\* elf.rs 1269-1277.
absolute_relocation_count_of(a) ==
    LET secs == SelectSeq(section_indices(a),
                          LAMBDA s : /\ ~starts_with(a.sections[s + 1].name,
                                                      <<".", "d", "e", "b", "u", "g">>)
                                     /\ ~starts_with(a.sections[s + 1].name,
                                                      <<".", "e", "h">>))
        abs(s) == { i \in 1..Len(a.sections[s + 1].relocations) :
                      a.sections[s + 1].relocations[i].kind = "Absolute" }
        RECURSIVE count(_)
        count(k) == IF k > Len(secs) THEN 0 ELSE Cardinality(abs(secs[k])) + count(k + 1)
    IN  count(1)

\* symbol_vaddr_map_insert without the test on the host's symbols.
symbol_vaddr_map_insert_always(m, map, sym, vaddr) == Insert(map, sym.index, vaddr)

\* elf.rs 1474-1476: the symbol gets its address unless the host exports a
\* symbol of that name.
symbol_vaddr_map_insert(m, map, sym, vaddr) ==
    IF ~ContainsKey(m.roc_symbol_vaddresses, to_string(sym.name))
    THEN Insert(map, sym.index, vaddr)
    ELSE map

RECURSIVE load_symbols(_, _, _, _, _, _)
\* elf.rs 1471-1482 for the section sec placed at virt_offset.
load_symbols(m, symbols, i, sec, virt_offset, st) ==
    IF i > Len(symbols) THEN st
    ELSE
      LET sym == [ symbols[i] EXCEPT !.name = @ ] @@ [ index |-> i - 1 ]
          name == to_string(sym.name)
          vaddr == virt_offset + sym.address
          st1 == IF sym.section # sec THEN st
                 ELSE [ st EXCEPT
                          !.symbol_vaddr_map = symbol_vaddr_map_insert(m, @, sym, vaddr),
                          !.app_func_vaddr_map =
                              IF name \in Range(m.app_functions)
                              THEN Insert(@, name, vaddr) ELSE @,
                          !.app_func_size_map =
                              IF name \in Range(m.app_functions)
                              THEN Insert(@, name, sym.size) ELSE @ ]
      IN  load_symbols(m, symbols, i + 1, sec, virt_offset, st1)

RECURSIVE layout_sections_bss_in_file(_, _, _, _, _)
\* layout_sections that gives a .bss section room in the file as well.
layout_sections_bss_in_file(m, a, secs, k, st) ==
    IF ~st.ok \/ k > Len(secs) THEN st
    ELSE
      LET sec == a.sections[secs[k] + 1]
          offset == align_by_constraint(st.offset, MIN_SECTION_ALIGNMENT)
          virt_offset == align_to_offset_by_constraint(st.virt_offset, offset,
                                                       m.load_align_constraint)
          st1 == load_symbols(m, a.symbols, 1, secs[k], virt_offset,
                   [ st EXCEPT !.section_offset_map =
                                   Insert(@, secs[k], <<offset, virt_offset>>) ])
          is_bss == starts_with(sec.name, <<".", "b", "s", "s">>)
      IN  layout_sections_bss_in_file(m, a, secs, k + 1,
            IF ~is_bss /\ sec.file_size # sec.size
            THEN [ st1 EXCEPT !.ok = FALSE, !.offset = offset, !.virt_offset = virt_offset ]
            ELSE [ st1 EXCEPT !.offset = offset + sec.size,
                              !.virt_offset = virt_offset + sec.size ])

RECURSIVE layout_sections(_, _, _, _, _)
\* elf.rs 1454-1496 over the sections secs from the k-th on.
layout_sections(m, a, secs, k, st) ==
    IF ~st.ok \/ k > Len(secs) THEN st
    ELSE
      LET sec == a.sections[secs[k] + 1]
          offset == align_by_constraint(st.offset, MIN_SECTION_ALIGNMENT)
          virt_offset == align_to_offset_by_constraint(st.virt_offset, offset,
                                                       m.load_align_constraint)
          st1 == load_symbols(m, a.symbols, 1, secs[k], virt_offset,
                   [ st EXCEPT !.section_offset_map =
                                   Insert(@, secs[k], <<offset, virt_offset>>) ])
          is_bss == starts_with(sec.name, <<".", "b", "s", "s">>)
      IN  layout_sections(m, a, secs, k + 1,
            IF is_bss
            THEN [ st1 EXCEPT !.offset = offset, !.virt_offset = virt_offset + sec.size ]
            ELSE IF sec.file_size # sec.size
            THEN [ st1 EXCEPT !.ok = FALSE, !.offset = offset, !.virt_offset = virt_offset ]
            ELSE [ st1 EXCEPT !.offset = offset + sec.file_size,
                              !.virt_offset = virt_offset + sec.size ])

\* elf.rs 1392-1508: the locals of surgery_elf_help after the layout pass.
surgery_layout(m, file, a, absolute_relocation_count) ==
    LET start == align_by_constraint(
                   file.ehdr.e_shoff + absolute_relocation_count * Rela64Size,
                   MIN_SECTION_ALIGNMENT)
        virt == align_to_offset_by_constraint(m.last_vaddr, start, m.load_align_constraint)
        st == layout_sections(m, a, processed_sections(a), 1,
                [ ok |-> app_text_sections(a) # << >>,
                  absolute_relocation_count |-> absolute_relocation_count,
                  sh_tab |-> file.shdrs,
                  offset |-> start, virt_offset |-> virt,
                  new_rodata_section_offset |-> start,
                  new_rodata_section_vaddr |-> virt,
                  section_offset_map |-> EmptyMap, symbol_vaddr_map |-> EmptyMap,
                  app_func_vaddr_map |-> EmptyMap, app_func_size_map |-> EmptyMap,
                  new_text_section_offset |-> 0, new_text_section_vaddr |-> 0,
                  current_rela_index |-> 0 ])
        texts == app_text_sections(a)
        first_text == CHOOSE s \in Range(texts) :
                        \A t \in Range(texts) :
                           st.section_offset_map[s][1] <= st.section_offset_map[t][1]
    IN  IF ~st.ok THEN st
        ELSE [ st EXCEPT !.new_text_section_offset = st.section_offset_map[first_text][1],
                         !.new_text_section_vaddr = st.section_offset_map[first_text][2] ]

(***************************************************************************)
(* surgery_elf_help, relocations (elf.rs 1511-1642).  st holds the output  *)
(* file, current_rela_index and ok, FALSE once a fatal error is raised.    *)
(***************************************************************************)
\* append_rela without the increment of current_rela_index.
append_rela_in_place(m, st, virt_base, r_addend) ==
    [ st EXCEPT !.out.app_relas =
        Insert(@, m.new_rela_paddr + m.rela_size + m.ph_shift_bytes
                    + st.current_rela_index * Rela64Size,
               Rela(virt_base, 0, R_X86_64_RELATIVE, r_addend)) ]

\* append_rela that writes from the start of the duplicated table.
append_rela_over_table(m, st, virt_base, r_addend) ==
    [ st EXCEPT !.out.app_relas =
                   Insert(@, m.new_rela_paddr + m.ph_shift_bytes
                               + st.current_rela_index * Rela64Size,
                          Rela(virt_base, 0, R_X86_64_RELATIVE, r_addend)),
                !.current_rela_index = @ + 1 ]

\* elf.rs 1574-1591: the load-time relocation that stands for an Absolute one.
append_rela(m, st, virt_base, r_addend) ==
    [ st EXCEPT !.out.app_relas =
                   Insert(@, m.new_rela_paddr + m.rela_size + m.ph_shift_bytes
                               + st.current_rela_index * Rela64Size,
                          Rela(virt_base, 0, R_X86_64_RELATIVE, r_addend)),
                !.current_rela_index = @ + 1 ]

\* elf.rs 1541-1567: the address a relocation against the symbol index
\* resolves to, None when neither map knows the symbol.
resolve_target(m, a, symbol_vaddr_map, index) ==
    LET name == to_string(a.symbols[index + 1].name)
    IN  IF ContainsKey(symbol_vaddr_map, index) THEN [ some |-> symbol_vaddr_map[index] ]
        ELSE IF ContainsKey(m.roc_symbol_vaddresses, name)
        THEN [ some |-> update_virtual_offset(m, m.roc_symbol_vaddresses[name]) ]
        ELSE None

ALWAYS_LINKED == { "__divti3", "__udivti3" }

\* A relocation pass that checks neither the kind nor the width: every kind
\* but Absolute is written as a displacement, every width but 32 in full.
apply_relocation_unchecked(m, a, lay, st, place, rel) ==
    LET target_offset == resolve_target(m, a, lay.symbol_vaddr_map, rel.target)
        virt_base == place[2] + rel.offset
        base == place[1] + rel.offset
        target == (target_offset.some - virt_base) + rel.addend
    IN  IF target_offset = None
        THEN IF to_string(a.symbols[rel.target + 1].name) \in ALWAYS_LINKED
             THEN st ELSE [ st EXCEPT !.ok = FALSE ]
        ELSE IF rel.kind = "Absolute"
        THEN append_rela(m, st, virt_base, target_offset.some + rel.addend)
        ELSE IF rel.size = 32
        THEN [ st EXCEPT !.out = copy_from_slice(@, base, to_le_bytes(target, 4)) ]
        ELSE [ st EXCEPT !.out = copy_from_slice(@, base, to_le_bytes(target, 8)) ]

\* elf.rs 1539-1641: one relocation rel of the section placed at
\* <<section_offset, section_virtual_offset>>.
apply_relocation(m, a, lay, st, place, rel) ==
    LET target_offset == resolve_target(m, a, lay.symbol_vaddr_map, rel.target)
        virt_base == place[2] + rel.offset
        base == place[1] + rel.offset
        target == (target_offset.some - virt_base) + rel.addend
    IN  IF target_offset = None
        THEN IF to_string(a.symbols[rel.target + 1].name) \in ALWAYS_LINKED
             THEN st
             ELSE [ st EXCEPT !.ok = FALSE ]
        ELSE IF rel.kind = "Absolute"
        THEN append_rela(m, st, virt_base, target_offset.some + rel.addend)
        ELSE IF rel.kind \notin {"Relative", "PltRelative"}
        THEN [ st EXCEPT !.ok = FALSE ]
        ELSE IF rel.size = 32
        THEN [ st EXCEPT !.out = copy_from_slice(@, base, to_le_bytes(target, 4)) ]
        ELSE IF rel.size = 64
        THEN [ st EXCEPT !.out = copy_from_slice(@, base, to_le_bytes(target, 8)) ]
        ELSE [ st EXCEPT !.ok = FALSE ]

RECURSIVE apply_relocations(_, _, _, _, _, _, _)
apply_relocations(m, a, lay, st, place, relocations, i) ==
    IF ~st.ok \/ i > Len(relocations) THEN st
    ELSE apply_relocations(m, a, lay,
                           apply_relocation(m, a, lay, st, place, relocations[i]),
                           place, relocations, i + 1)

RECURSIVE move_sections(_, _, _, _, _, _)
\* elf.rs 1512-1642 over the sections secs from the k-th on: the data of a
\* section is copied to its offset, then its relocations are applied.
move_sections(m, a, lay, secs, k, st) ==
    IF ~st.ok \/ k > Len(secs) THEN st
    ELSE
      LET place == lay.section_offset_map[secs[k]]
          copied == [ st EXCEPT !.out.app_data = Insert(@, secs[k], place[1]) ]
      IN  move_sections(m, a, lay, secs, k + 1,
            apply_relocations(m, a, lay, copied, place,
                              a.sections[secs[k] + 1].relocations, 1))

(***************************************************************************)
(* surgery_elf_help, tables and headers (elf.rs 1644-1776).                *)
(***************************************************************************)
\* grow_dyns that adds the count of entries to both fields.
grow_dyns_by_count(dyns, count, added_rela_size, current_rela_index) ==
    [ i \in 1..Len(dyns) |->
        IF i > count THEN dyns[i]
        ELSE IF dyns[i].d_tag \in {DT_RELASZ, DT_RELACOUNT}
        THEN Dyn(dyns[i].d_tag, dyns[i].d_val + current_rela_index)
        ELSE dyns[i] ]

\* elf.rs 1644-1656.
grow_dyns(dyns, count, added_rela_size, current_rela_index) ==
    [ i \in 1..Len(dyns) |->
        IF i > count THEN dyns[i]
        ELSE IF dyns[i].d_tag = DT_RELASZ
        THEN Dyn(DT_RELASZ, dyns[i].d_val + added_rela_size)
        ELSE IF dyns[i].d_tag = DT_RELACOUNT
        THEN Dyn(DT_RELACOUNT, dyns[i].d_val + current_rela_index)
        ELSE dyns[i] ]

\* elf.rs 1658-1776: the section header table is moved behind the new
\* sections and gains two headers, the program headers gain two segments.
surgery_headers(m, file, lay) ==
    LET added_rela_size == lay.current_rela_index * Rela64Size
        new_sh_offset == align_by_constraint(lay.offset, MIN_SECTION_ALIGNMENT)
        sh_num == file.ehdr.e_shnum
        new_rodata_section_size ==
            lay.new_text_section_offset - lay.new_rodata_section_offset
        new_rodata_section_virtual_size ==
            lay.new_text_section_vaddr - lay.new_rodata_section_vaddr
        new_text_section_vaddr == lay.new_rodata_section_vaddr + new_rodata_section_size
        new_text_section_size == new_sh_offset - lay.new_text_section_offset
        shdrs == [ i \in 1..(sh_num + 2) |->
                     IF i = sh_num + 1
                     THEN Sh(<< >>, SHT_PROGBITS, lay.new_rodata_section_offset,
                             lay.new_rodata_section_vaddr, new_rodata_section_size, FALSE)
                     ELSE IF i = sh_num + 2
                     THEN Sh(<< >>, SHT_PROGBITS, lay.new_text_section_offset,
                             new_text_section_vaddr, new_text_section_size, TRUE)
                     ELSE IF i - 1 = m.rela_section_index
                     THEN [ lay.sh_tab[i] EXCEPT !.sh_size = @ + added_rela_size ]
                     ELSE lay.sh_tab[i] ]
        ph_num == file.ehdr.e_phnum
        \* the headers behind the ones preprocessing wrote are zero bytes
        old(i) == IF i <= Len(file.phdrs) THEN file.phdrs[i] ELSE ZeroPh
        phdrs == [ i \in 1..ph_num |->
                     IF i = ph_num - 2
                     THEN [ old(i) EXCEPT !.p_filesz = @ + added_rela_size,
                                                 !.p_memsz = @ + added_rela_size ]
                     ELSE IF i = ph_num - 1
                     THEN Ph(PT_LOAD, lay.new_rodata_section_offset,
                             lay.new_rodata_section_vaddr, new_rodata_section_size,
                             new_rodata_section_virtual_size, m.load_align_constraint)
                     ELSE IF i = ph_num
                     THEN Ph(PT_LOAD, lay.new_text_section_offset, new_text_section_vaddr,
                             new_text_section_size, new_text_section_size,
                             m.load_align_constraint)
                     ELSE old(i) ]
    IN  [ file EXCEPT !.dyns = grow_dyns(@, m.dynamic_section_count, added_rela_size,
                                         lay.current_rela_index),
                      !.shdrs = shdrs,
                      !.ehdr.e_shoff = new_sh_offset,
                      !.ehdr.e_shnum = sh_num + 2,
                      !.phdrs = phdrs ]

(***************************************************************************)
(* surgery_elf_help, calls from the host (elf.rs 1778-1881).               *)
(***************************************************************************)
\* surgery_virt_offset without the translation of the site's address.
surgery_virt_offset_untranslated(m, s) ==
    IF s.virtual_offset.kind = "Relative" THEN s.virtual_offset.a ELSE 0

\* elf.rs 1800-1803.
surgery_virt_offset(m, s) ==
    IF s.virtual_offset.kind = "Relative"
    THEN update_virtual_offset(m, s.virtual_offset.a)
    ELSE 0

RECURSIVE perform_surgeries_any_width(_, _, _, _, _)
\* perform_surgeries that writes an entry of any width.
perform_surgeries_any_width(m, st, entries, i, func_virt_offset) ==
    IF ~st.ok \/ i > Len(entries) THEN st
    ELSE
      LET s == entries[i]
          target == func_virt_offset - surgery_virt_offset(m, s)
      IN  perform_surgeries_any_width(m,
            [ st EXCEPT !.out = copy_from_slice(@, update_physical_offset(m, s.file_offset),
                                                to_le_bytes(target, s.size)) ],
            entries, i + 1, func_virt_offset)

RECURSIVE perform_surgeries(_, _, _, _, _)
\* elf.rs 1796-1827 for the entries of one function from the i-th on.
perform_surgeries(m, st, entries, i, func_virt_offset) ==
    IF ~st.ok \/ i > Len(entries) THEN st
    ELSE
      LET s == entries[i]
          target == func_virt_offset - surgery_virt_offset(m, s)
      IN  perform_surgeries(m,
            IF s.size \in {4, 8}
            THEN [ st EXCEPT !.out = copy_from_slice(@, update_physical_offset(m, s.file_offset),
                                                     to_le_bytes(target, s.size)) ]
            ELSE [ st EXCEPT !.ok = FALSE ],
            entries, i + 1, func_virt_offset)

\* patch_plt that leaves the stub of a function without call sites alone.
patch_plt_when_called(m, file, func_name, func_virt_offset) ==
    IF ~ContainsKey(m.plt_addresses, func_name) THEN file
    ELSE IF ~ContainsKey(m.surgeries, func_name) \/ m.surgeries[func_name] = << >> THEN file
    ELSE
      LET plt_off == update_physical_offset(m, m.plt_addresses[func_name][1])
          plt_vaddr == update_virtual_offset(m, m.plt_addresses[func_name][2])
          jmp_inst_len == 5
          target == func_virt_offset - (plt_vaddr + jmp_inst_len)
      IN  copy_from_slice(file, plt_off,
            << 233 >> \o to_le_bytes(target, 4)
                      \o [ i \in 1..(PLT_ADDRESS_OFFSET - jmp_inst_len) |-> 144 ])

\* elf.rs 1831-1847: the stub becomes a jump to the function, padded with nops.
patch_plt(m, file, func_name, func_virt_offset) ==
    IF ~ContainsKey(m.plt_addresses, func_name) THEN file
    ELSE
      LET plt_off == update_physical_offset(m, m.plt_addresses[func_name][1])
          plt_vaddr == update_virtual_offset(m, m.plt_addresses[func_name][2])
          jmp_inst_len == 5
          target == func_virt_offset - (plt_vaddr + jmp_inst_len)
      IN  copy_from_slice(file, plt_off,
            << 233 >> \o to_le_bytes(target, 4)
                      \o [ i \in 1..(PLT_ADDRESS_OFFSET - jmp_inst_len) |-> 144 ])

\* elf.rs 1849-1879: the symbol of the function in one symbol table.
define_symbol(symbols, indices, func_name, shndx, st_value, st_size) ==
    IF ~ContainsKey(indices, func_name) THEN symbols
    ELSE [ symbols EXCEPT ![indices[func_name] + 1] =
             [ st_shndx |-> shndx ]
               @@ [ @ EXCEPT !.kind = "defined", !.address = st_value, !.size = st_size ] ]

RECURSIVE patch_functions_skipping(_, _, _, _, _)
\* patch_functions that passes over a function the application does not
\* define.
patch_functions_skipping(m, lay, st, k, new_text_section_index) ==
    IF ~st.ok \/ k > Len(m.app_functions) THEN st
    ELSE
      LET func_name == m.app_functions[k]
          defined == ContainsKey(lay.app_func_vaddr_map, func_name)
          func_virt_offset == lay.app_func_vaddr_map[func_name]
          entries == IF ContainsKey(m.surgeries, func_name)
                     THEN m.surgeries[func_name] ELSE << >>
          st1 == perform_surgeries(m, st, entries, 1, func_virt_offset)
          st2 == [ st1 EXCEPT !.out = patch_plt(m, @, func_name, func_virt_offset) ]
          size == lay.app_func_size_map[func_name]
          st3 == [ st2 EXCEPT
                     !.out.dynsym = define_symbol(@, m.dynamic_symbol_indices, func_name,
                                                  new_text_section_index, func_virt_offset,
                                                  size),
                     !.out.symtab = define_symbol(@, m.static_symbol_indices, func_name,
                                                  new_text_section_index, func_virt_offset,
                                                  size) ]
      IN  patch_functions_skipping(m, lay,
            IF ~defined THEN st ELSE IF ~st1.ok THEN st1 ELSE st3,
            k + 1, new_text_section_index)

RECURSIVE patch_functions(_, _, _, _, _)
\* elf.rs 1782-1881 over md.app_functions from the k-th on.
patch_functions(m, lay, st, k, new_text_section_index) ==
    IF ~st.ok \/ k > Len(m.app_functions) THEN st
    ELSE
      LET func_name == m.app_functions[k]
          defined == ContainsKey(lay.app_func_vaddr_map, func_name)
          func_virt_offset == lay.app_func_vaddr_map[func_name]
          entries == IF ContainsKey(m.surgeries, func_name)
                     THEN m.surgeries[func_name] ELSE << >>
          st1 == perform_surgeries(m, st, entries, 1, func_virt_offset)
          st2 == [ st1 EXCEPT !.out = patch_plt(m, @, func_name, func_virt_offset) ]
          \* a symbol table entry is written only when the size is known
          sized == ContainsKey(lay.app_func_size_map, func_name)
          size == lay.app_func_size_map[func_name]
          st3 == [ st2 EXCEPT
                     !.out.dynsym = define_symbol(@, m.dynamic_symbol_indices, func_name,
                                                  new_text_section_index, func_virt_offset,
                                                  size),
                     !.out.symtab = define_symbol(@, m.static_symbol_indices, func_name,
                                                  new_text_section_index, func_virt_offset,
                                                  size) ]
      IN  patch_functions(m, lay,
            IF ~defined THEN [ st EXCEPT !.ok = FALSE ]
            ELSE IF ~st1.ok THEN st1
            ELSE IF ~sized /\ (ContainsKey(m.dynamic_symbol_indices, func_name)
                               \/ ContainsKey(m.static_symbol_indices, func_name))
            THEN [ st2 EXCEPT !.ok = FALSE ]
            ELSE st3,
            k + 1, new_text_section_index)

(***************************************************************************)
(* surgery_elf, step by step.                                              *)
(***************************************************************************)
\* elf.rs 1262-1299: the relocations are counted, the metadata read and the
\* executable, the preprocessed host, mapped with room for the application.
SurgeryOpen ==
    /\ pc = "preprocessed"
    /\ LET absolute_relocation_count == absolute_relocation_count_of(app)
           m == read_from_file(metadata)
           max_out_len == m.exec_len + app.len
                          + absolute_relocation_count * (Rela64Size - Rel64Size)
                          + m.load_align_constraint
       IN  IF m = None
           THEN Abort /\ UNCHANGED <<md, out, merge>>
           ELSE /\ md' = m
                /\ out' = open_mmap_mut(out, max_out_len)
                /\ merge' = [ absolute_relocation_count |-> absolute_relocation_count ]
                /\ pc' = "layout"
    /\ UNCHANGED <<overflow_checks, host, deps, app, probe, metadata>>

\* elf.rs 1392-1508.
SurgeryLayout ==
    /\ pc = "layout"
    /\ merge' = surgery_layout(md, out, app, merge.absolute_relocation_count)
    /\ IF merge'.ok THEN pc' = "move" ELSE Abort
    /\ UNCHANGED <<overflow_checks, host, md, deps, out, app, probe, metadata>>

\* elf.rs 1511-1642.
SurgeryRelocate ==
    /\ pc = "move"
    /\ LET st == move_sections(md, app, merge, processed_sections(app), 1,
                               [ ok |-> TRUE, out |-> out, current_rela_index |-> 0 ])
       IN  /\ out' = st.out
           /\ merge' = [ merge EXCEPT !.current_rela_index = st.current_rela_index ]
           /\ IF st.ok THEN pc' = "headers" ELSE Abort
    /\ UNCHANGED <<overflow_checks, host, md, deps, app, probe, metadata>>

\* elf.rs 1644-1776.
SurgeryHeaders ==
    /\ pc = "headers"
    /\ out' = surgery_headers(md, out, merge)
    /\ pc' = "patch"
    /\ UNCHANGED <<overflow_checks, host, md, deps, app, merge, probe, metadata>>

\* elf.rs 1778-1881.
SurgeryPatch ==
    /\ pc = "patch"
    /\ LET st == patch_functions(md, merge, [ ok |-> TRUE, out |-> out ], 1,
                                 out.ehdr.e_phnum - 1)
       IN  /\ out' = st.out
           /\ IF st.ok THEN pc' = "flush" ELSE Abort
    /\ UNCHANGED <<overflow_checks, host, md, deps, app, merge, probe, metadata>>

\* elf.rs 1316-1337: the mapping is flushed and dropped, the file made
\* executable.
SurgeryFlush ==
    /\ pc = "flush"
    /\ out' = [ out EXCEPT !.flushed = TRUE, !.executable = TRUE ]
    /\ pc' = "merged"
    /\ UNCHANGED <<overflow_checks, host, md, deps, app, merge, probe, metadata>>

Merge ==
    \/ SurgeryOpen
    \/ SurgeryLayout
    \/ SurgeryRelocate
    \/ SurgeryHeaders
    \/ SurgeryPatch
    \/ SurgeryFlush

(***************************************************************************)
(* Spec: preprocessing of a host followed by the merge of an application.  *)
(***************************************************************************)
\* Hosts that reach both application functions through the PLT and one of
\* them through the GOT as well, loaded at 0 and at 4096.
MergeHosts ==
    { MkHost([ BaseParams EXCEPT !.relaDyn = <<"REL", "GD1">> ]),
      MkHost([ BaseParams EXCEPT !.vbase = 4096, !.relaDyn = <<"GD2", "REL">> ]) }

\* Hosts on which a pass fails: no segment loaded from offset 0, a short
\* jump and branches with 16-bit operand size to a stub of the application,
\* no .rela.dyn entries, no dependency on the placeholder.
FailingHosts ==
    { [ MkHost(BaseParams) EXCEPT !.phdrs[2].p_offset = MIN_SECTION_ALIGNMENT ],
      MkHost([ BaseParams EXCEPT !.calls = <<<<"jmp8", 2>>>> ]),
      MkHost([ BaseParams EXCEPT !.calls = <<<<"call16", 2>>, <<"call32", 3>>>> ]),
      MkHost([ BaseParams EXCEPT !.calls = <<<<"call32", 2>>, <<"jmp8_16", 3>>>> ]),
      MkHost([ BaseParams EXCEPT !.relaDyn = << >> ]),
      MkHost([ BaseParams EXCEPT !.needed = <<Layout.str_libc>> ]) }

\* A host that never calls the stub of one of the application functions and
\* has no GOT entry for it.
UncalledHosts ==
    { MkHost([ BaseParams EXCEPT !.vbase = 4096,
                                 !.calls = <<<<"call32", 2>>, <<"other", 0>>>> ]) }

Apps == { MkApp(picks, TRUE) : picks \in SeqsUpTo(RelocPool, MaxAppRelocs) }

\* Applications the merger refuses: one of the two functions is missing or
\* defined in a section that is not processed,
\* a section is shorter in the file than in memory, there is no code.
\* An application with a relocation of an unsupported kind against the
\* always-linked symbol nobody defines.
SkippingApps == { MkApp(<< <<"Got", 32, AppLayout.divti3, 0>> >>, TRUE) }

BrokenApps ==
    { MkApp(<< >>, FALSE),
      [ MkApp(<< >>, TRUE) EXCEPT !.symbols[3].section = AppLayout.sec_data ],
      [ MkApp(<< >>, TRUE) EXCEPT !.sections[2].file_size = 16 ],
      [ MkApp(<< >>, TRUE) EXCEPT !.sections[1].name = <<".", "i", "n", "i", "t">> ] }

Init ==
    \/ InitWith(MergeHosts, {None}, Apps \cup BrokenApps \cup SkippingApps)
    \/ InitWith(FailingHosts \cup UncalledHosts, {None}, {MkApp(<< >>, TRUE)})

Next == Preprocess \/ Merge

Spec == Init /\ [][Next]_vars

Merged == pc = "merged"

\* The relocations of the processed sections, each with the place of its
\* section: records [rel, place].
ProcessedRelocations ==
    UNION { { [ rel |-> app.sections[s + 1].relocations[i],
                place |-> merge.section_offset_map[s] ] :
                i \in 1..Len(app.sections[s + 1].relocations) } :
            s \in Range(processed_sections(app)) }

\* The address the layout gives a symbol defined in a processed section.
LayoutAddress(sym) == merge.section_offset_map[sym.section][2] + sym.address

DefinedByApp(sym) == sym.section \in Range(processed_sections(app))

DefinedByHost(sym) == to_string(sym.name) \in DOMAIN md.roc_symbol_vaddresses

\* The final address of the application function of that name.
FinalAddress(func_name) ==
    LayoutAddress(CHOOSE sym \in Range(app.symbols) :
                    to_string(sym.name) = func_name /\ DefinedByApp(sym))

\* The value of the field a surgery entry names, read from the output.
PatchedValue(s) ==
    from_le_bytes(read_bytes(out, update_physical_offset(md, s.file_offset), s.size))

AllSurgeries ==
    UNION { { [ func |-> f, s |-> md.surgeries[f][i] ] : i \in 1..Len(md.surgeries[f]) } :
            f \in DOMAIN md.surgeries }

\* C1: after preprocessing and merging, the field of every surgery entry of
\* every application function decodes to the function's final address:
\* value + translate_virtual(a) for a Relative(a) site, the value itself
\* for an Absolute site.
C1_PatchedFieldsDecode ==
    Merged =>
      \A e \in { x \in AllSurgeries : x.func \in Range(md.app_functions) } :
         IF e.s.virtual_offset.kind = "Relative"
         THEN PatchedValue(e.s) + update_virtual_offset(md, e.s.virtual_offset.a)
                = FinalAddress(e.func)
         ELSE PatchedValue(e.s) = FinalAddress(e.func)

C1_Witness ==
    /\ Merged
    /\ \E e \in AllSurgeries : e.s.virtual_offset.kind = "Relative" /\ e.s.size = 4
    /\ \E e \in AllSurgeries : e.s.virtual_offset.kind = "Absolute" /\ e.s.size = 8
    /\ md.ph_virtual_shift_start > 0

Resolves(rel) ==
    DefinedByApp(app.symbols[rel.target + 1]) \/ DefinedByHost(app.symbols[rel.target + 1])

AbsoluteProcessed == { r \in ProcessedRelocations : r.rel.kind = "Absolute" }

\* C2 as stated: after merging, the count of appended RELATIVE entries is
\* the number of Absolute relocations in the processed sections.
C2_AppendedCountsEveryAbsolute ==
    Merged => merge.current_rela_index = Cardinality(AbsoluteProcessed)

\* C2, amended: after merging, the count of appended RELATIVE entries, and
\* the number of entries written behind the moved table, is the number of
\* Absolute relocations in the processed sections whose target resolves;
\* those against an always-linked symbol that neither the application nor
\* the host defines are skipped.
C2_AppendedCountsResolvedAbsolute ==
    Merged =>
      /\ merge.current_rela_index
           = Cardinality({ r \in AbsoluteProcessed : Resolves(r.rel) })
      /\ Cardinality(DOMAIN out.app_relas) = merge.current_rela_index
      /\ \A r \in AbsoluteProcessed :
           ~Resolves(r.rel) => to_string(app.symbols[r.rel.target + 1].name) \in ALWAYS_LINKED

C2_Witness ==
    /\ Merged
    /\ merge.current_rela_index >= 1
    /\ \E r \in AbsoluteProcessed : ~Resolves(r.rel)

\* The address the output gives the target of a relocation: decoded from
\* the bytes written at the site, or from the appended entry of the site.
ResolvedAs(r) ==
    LET virt_base == r.place[2] + r.rel.offset
        base == r.place[1] + r.rel.offset
    IN  IF r.rel.kind = "Absolute"
        THEN out.app_relas[CHOOSE at \in DOMAIN out.app_relas :
                             out.app_relas[at].r_offset = virt_base].r_addend
               - r.rel.addend
        ELSE (from_le_bytes(read_bytes(out, base, r.rel.size \div 8)) + virt_base)
               - r.rel.addend

\* C9: after merging, a relocation against a symbol whose name the host
\* exports resolves to the translated host address, also when the
\* application defines the name; against any other symbol the application
\* defines it resolves to the address of the layout pass.
C9_HostDefinitionsTakePrecedence ==
    Merged =>
      \A r \in { x \in ProcessedRelocations : Resolves(x.rel) } :
         LET sym == app.symbols[r.rel.target + 1]
         IN  IF DefinedByHost(sym)
             THEN ResolvedAs(r)
                    = update_virtual_offset(md, md.roc_symbol_vaddresses[to_string(sym.name)])
             ELSE ResolvedAs(r) = LayoutAddress(sym)

C9_Witness ==
    /\ Merged
    /\ \E r \in ProcessedRelocations :
         /\ DefinedByApp(app.symbols[r.rel.target + 1])
         /\ DefinedByHost(app.symbols[r.rel.target + 1])
    /\ \E r \in ProcessedRelocations :
         /\ DefinedByApp(app.symbols[r.rel.target + 1])
         /\ ~DefinedByHost(app.symbols[r.rel.target + 1])

\* C10: when preprocessing or merging has failed, no output file is left,
\* and a pass that completed has flushed its output.
C10_NoPartialOutput ==
    /\ pc = "failed" => out = None
    /\ pc \in {"preprocessed", "merged"} => out # None /\ out.flushed

(***************************************************************************)
(* Metadata on disk.                                                       *)
(***************************************************************************)
\* C11: the metadata read back from the file preprocessing wrote is equal,
\* field for field, to the Metadata that was written (the order of each
\* list of surgery entries and the addressing mode of each entry included).
C11_MetadataRoundTrips ==
    pc = "preprocessed" =>
      LET read == deserialize(MetadataType, metadata, 1)
      IN  /\ read = Read(md, Len(metadata) + 1)
          /\ read_from_file(metadata) = read.val
          /\ \A f \in DOMAIN md.surgeries : read.val.surgeries[f] = md.surgeries[f]

C11_Witness ==
    /\ pc = "preprocessed"
    /\ \E f \in DOMAIN md.surgeries :
         /\ Len(md.surgeries[f]) >= 2
         /\ \E i, j \in 1..Len(md.surgeries[f]) :
              /\ md.surgeries[f][i].virtual_offset.kind = "Relative"
              /\ md.surgeries[f][j].virtual_offset = Absolute
    /\ Cardinality(DOMAIN md.plt_addresses) >= 2
    /\ md.app_functions # << >>

(***************************************************************************)
(* SpecScan: the disassembly of hosts whose .text holds every sequence of  *)
(* up to MaxCalls instructions: near calls and jumps of four operand kinds *)
(* to the stub of a library function (1) and of the two application        *)
(* functions (2, 3), far branches, indirect calls and other instructions.  *)
(***************************************************************************)
InstPool ==
    { <<"call32", stub>> : stub \in 1..3 }
      \cup { <<"jmp8", 1>>, <<"jmp8", 2>>, <<"call16", 2>>, <<"jmp8_16", 3>>, <<"jmp32", 2>>,
              <<"indirect", 0>>, <<"far", 0>>, <<"other", 0>> }

ScanHosts ==
    { MkHost([ BaseParams EXCEPT !.calls = calls, !.vbase = vbase ]) :
        calls \in SeqsUpTo(InstPool, MaxCalls), vbase \in {0, 4096} }

InitScan == InitWith(ScanHosts, {None}, {None})

\* A second run of elf.rs 494-496 over the same host, PLT map and symbols.
Rescan ==
    /\ pc = "scan"
    /\ \E verbose \in BOOLEAN :
         probe' = [ kind |-> "rescan", verbose |-> verbose,
                    surgeries |-> append_text_sections(host, app_func_addresses_of(host),
                                                       Surgeries_new(app_syms_of(host)),
                                                       verbose) ]
    /\ pc' = "rescanned"
    /\ UNCHANGED <<overflow_checks, host, md, deps, out, app, merge, metadata>>

NextScan == Preprocess \/ Rescan

SpecScan == InitScan /\ [][NextScan]_vars

DefinedFunction(func_name) ==
    \E sym \in Range(app.symbols) : to_string(sym.name) = func_name /\ DefinedByApp(sym)

UndefinedFunctions == { f \in Range(md.app_functions) : ~DefinedFunction(f) }

\* C13: when a function the host requires has no defined symbol in the
\* processed application sections, the patching step aborts the merge; a
\* merge that completed found every required function.
C13_UndefinedFunctionAborts ==
    /\ [](Merged => UndefinedFunctions = {})
    /\ [][(pc = "patch" /\ UndefinedFunctions # {}) => pc' = "failed"]_vars

\* The patching step was reached and aborted, for a function without symbol
\* or with a symbol in a section that is not processed.
C13_Witness ==
    /\ pc = "failed"
    /\ out # None /\ Len(out.phdrs) = out.ehdr.e_phnum
    /\ out.phdrs[out.ehdr.e_phnum].p_type = PT_LOAD
    /\ merge # None /\ "app_func_vaddr_map" \in DOMAIN merge
    /\ UndefinedFunctions # {}
    /\ \E sym \in Range(app.symbols) :
         to_string(sym.name) \in UndefinedFunctions /\ sym.section = AppLayout.sec_data

(***************************************************************************)
(* SpecShift: the header shift (elf.rs 669-673) as a function of the       *)
(* program-header entry size of the file header, 0..MaxPhEntSize.          *)
(***************************************************************************)
PhEntSizeHosts ==
    { [ MkHost(BaseParams) EXCEPT !.e_phentsize = ph_ent_size ] :
        ph_ent_size \in 0..MaxPhEntSize }

InitShift == InitWith(PhEntSizeHosts, {None}, {None})

\* elf.rs 635, 670-673.
ComputeShift ==
    /\ pc = "start"
    /\ LET ph_ent_size == host.e_phentsize
       IN  probe' = [ kind |-> "shift", ph_ent_size |-> ph_ent_size,
                      ph_shift_bytes |-> ph_shift_bytes_of(ph_ent_size) ]
    /\ pc' = "shifted"
    /\ UNCHANGED <<overflow_checks, host, md, deps, out, app, merge, metadata>>

SpecShift == InitShift /\ [][ComputeShift]_vars

Shifted == pc = "shifted" /\ probe # None

\* m is the smallest multiple of MIN_SECTION_ALIGNMENT that is >= x.
RoundedUp(m, x) ==
    /\ m % MIN_SECTION_ALIGNMENT = 0
    /\ m >= x
    /\ m - MIN_SECTION_ALIGNMENT < x

\* C14 (as stated): for every program-header entry size the shift is the
\* smallest multiple of 0x40 that is >= 3 * e_phentsize.
C14_ShiftIsRoundUp ==
    Shifted => RoundedUp(probe.ph_shift_bytes, added_header_count * probe.ph_ent_size)

\* C14 (amended): the shift is the smallest multiple of 0x40 strictly greater
\* than 3 * e_phentsize; it is the round-up of 3 * e_phentsize exactly when
\* that product is not a multiple of 0x40, as for the 56-byte entries of
\* ELF64 (192).
C14_ShiftIsNextMultiple ==
    Shifted =>
      /\ RoundedUp(probe.ph_shift_bytes, added_header_count * probe.ph_ent_size + 1)
      /\ (added_header_count * probe.ph_ent_size) % MIN_SECTION_ALIGNMENT # 0
           => RoundedUp(probe.ph_shift_bytes, added_header_count * probe.ph_ent_size)
      /\ probe.ph_ent_size = 56 => probe.ph_shift_bytes = 192

\* An entry size whose triple is a multiple of 0x40 already.
C14_Witness ==
    /\ Shifted
    /\ probe.ph_ent_size = 64
    /\ probe.ph_shift_bytes = 256

(***************************************************************************)
(* The program-header rewrite (elf.rs 744-761).                            *)
(***************************************************************************)
HeadersShifted == pc = "section_headers"

\* The first loaded segment and the program-header segment.
CoversHeaderTable(ph) == (ph.p_type = PT_LOAD /\ ph.p_offset = 0) \/ ph.p_type = PT_PHDR

\* C15: the PT_LOAD segment at file offset 0 and the PT_PHDR segment keep
\* offset and addresses and grow, in file and in memory, by the shift; every
\* other header of the host has its offset translated physically and its
\* addresses virtually, sizes unchanged.
C15_ProgramHeadersRewritten ==
    HeadersShifted =>
      \A i \in 1..Len(host.phdrs) :
        LET old == host.phdrs[i]
            new == out.phdrs[i]
        IN  IF CoversHeaderTable(old)
            THEN /\ new.p_offset = old.p_offset
                 /\ new.p_vaddr = old.p_vaddr
                 /\ new.p_paddr = old.p_paddr
                 /\ new.p_filesz = old.p_filesz + md.ph_shift_bytes
                 /\ new.p_memsz = old.p_memsz + md.ph_shift_bytes
            ELSE /\ new.p_offset = update_physical_offset(md, old.p_offset)
                 /\ new.p_vaddr = update_virtual_offset(md, old.p_vaddr)
                 /\ new.p_paddr = update_virtual_offset(md, old.p_paddr)
                 /\ new.p_filesz = old.p_filesz
                 /\ new.p_memsz = old.p_memsz

\* A host with both growing segments and a segment that moved.
C15_Witness ==
    /\ HeadersShifted
    /\ md.ph_shift_bytes > 0
    /\ \E i, j, k \in 1..Len(host.phdrs) :
         /\ host.phdrs[i].p_type = PT_LOAD /\ host.phdrs[i].p_offset = 0
         /\ host.phdrs[j].p_type = PT_PHDR
         /\ ~CoversHeaderTable(host.phdrs[k])
         /\ out.phdrs[k].p_offset > host.phdrs[k].p_offset
         /\ out.phdrs[k].p_vaddr > host.phdrs[k].p_vaddr

(***************************************************************************)
(* Jump-slot removal (elf.rs 879-962), seen right after the relocation     *)
(* tables were rewritten and before the dynamic table is shifted.          *)
(***************************************************************************)
RelocationsRewritten == pc = "dynamic"

AppJumpSlot(rel) ==
    rel.r_type = R_X86_64_JUMP_SLOT /\ rel.r_sym \in Range(deps.app_sym_indices)

\* The entries of the host's table of section sec (a record of
\* rela_sections_of) and the positions of its application jump-slots.
OriginalTable(sec) == SubSeq(host.relas[sec.sec_index], 1, sec.sec_size \div Rela64Size)

AppJumpSlots(sec) ==
    { i \in 1..Len(OriginalTable(sec)) : AppJumpSlot(OriginalTable(sec)[i]) }

\* The last k entries are NONE; the first n - k are the kept entries, each
\* once (an entry is known by its translated r_offset and its symbol).
TailNeutralised(sec) ==
    LET old == OriginalTable(sec)
        new == out.relas[sec.sec_index]
        n == Len(old)
        k == Cardinality(AppJumpSlots(sec))
        kept == (1..n) \ AppJumpSlots(sec)
    IN  /\ \A i \in (n - k + 1)..n : new[i].r_type = R_X86_64_NONE
        /\ \A i \in 1..(n - k) : new[i].r_type # R_X86_64_NONE
        /\ \A i \in kept :
             Cardinality({ j \in 1..(n - k) :
                             /\ new[j].r_offset = update_virtual_offset(md, old[i].r_offset)
                             /\ new[j].r_addend =
                                  (IF old[i].r_type = R_X86_64_RELATIVE
                                   THEN update_virtual_offset(md, old[i].r_addend)
                                   ELSE old[i].r_addend)
                             /\ (old[i].r_type = R_X86_64_JUMP_SLOT
                                   => new[j].r_type = old[i].r_type
                                      /\ new[j].r_sym = old[i].r_sym) }) = 1

SectionShrunk(sec) ==
    out.shdrs[sec.sec_index + 1].sh_size
      = sec.sec_size - Cardinality(AppJumpSlots(sec)) * Rela64Size

\* The dynamic entries of the host with the tag.
DynsTagged(tag) == { i \in 1..deps.dynamic_lib_count : host.dyns[i].d_tag = tag }

\* The table is the one a dynamic entry with the tag names, by its address.
NamedBy(tag, sec) ==
    \E i \in DynsTagged(tag) : host.dyns[i].d_val = host.shdrs[sec.sec_index + 1].sh_addr

DynSizeShrunk(sec) ==
    LET removed_size == Cardinality(AppJumpSlots(sec)) * Rela64Size
    IN  /\ NamedBy(DT_RELA, sec) =>
             \A i \in DynsTagged(DT_RELASZ) :
               out.dyns[i].d_val = host.dyns[i].d_val - removed_size
        /\ NamedBy(DT_JMPREL, sec) =>
             \A i \in DynsTagged(DT_PLTRELSZ) :
               out.dyns[i].d_val = host.dyns[i].d_val - removed_size

\* C16: after the removal, in every relocation table the last k entries are
\* NONE, the first n - k are the entries that were not application
\* jump-slots, the section is k entries shorter, and the size entry of the
\* dynamic table that goes with the table (DT_RELASZ for the table DT_RELA
\* names, DT_PLTRELSZ for the one DT_JMPREL names) is smaller by as much.
C16_JumpSlotsRemoved ==
    RelocationsRewritten =>
      \A sec \in Range(rela_sections_of(host.shdrs)) :
        TailNeutralised(sec) /\ SectionShrunk(sec) /\ DynSizeShrunk(sec)

\* The part of C16 about the tables and the section headers.
JumpSlotsRemovedFromTables ==
    RelocationsRewritten =>
      \A sec \in Range(rela_sections_of(host.shdrs)) :
        TailNeutralised(sec) /\ SectionShrunk(sec)

(***************************************************************************)
(* GLOB_DAT relocations of application symbols (elf.rs 859-877).           *)
(***************************************************************************)
\* The GLOB_DAT entries of the host: <<sec, i>> for entry i of the table of
\* section sec (a record of rela_sections_of).
GlobDats ==
    UNION { { <<sec, i>> : i \in { j \in 1..Len(OriginalTable(sec)) :
                                     OriginalTable(sec)[j].r_type = R_X86_64_GLOB_DAT } } :
            sec \in Range(rela_sections_of(host.shdrs)) }

\* The name of the dynamic symbol a relocation entry targets.
TargetName(e) == to_string(host.dynsym[OriginalTable(e[1])[e[2]].r_sym + 1].name)

TargetsApp(e) == TargetName(e) \in Range(md.app_functions)

\* The position in the host file of the addend field of the entry.
AddendPosition(e) == e[1].sec_offset + (e[2] - 1) * Rela64Size + 16

\* The entry as it stands in the output, found by its translated r_offset.
Rewritten(e) ==
    LET new == out.relas[e[1].sec_index]
    IN  new[CHOOSE j \in 1..Len(new) :
              new[j].r_offset = update_virtual_offset(md, OriginalTable(e[1])[e[2]].r_offset)]

\* The surgeries recorded under a name at a file offset.
SurgeriesAt(name, file_offset) ==
    { i \in 1..Len(md.surgeries[name]) : md.surgeries[name][i].file_offset = file_offset }

\* What C17 says apart from the number of entries recorded.
GlobDatRewritten(e) ==
    IF TargetsApp(e)
    THEN /\ Rewritten(e).r_type = R_X86_64_RELATIVE
         /\ Rewritten(e).r_sym = 0
         /\ \A i \in SurgeriesAt(TargetName(e), AddendPosition(e)) :
              md.surgeries[TargetName(e)][i] = SurgeryEntry(AddendPosition(e), Absolute, 8)
         /\ \A name \in DOMAIN md.surgeries \ { TargetName(e) } :
              SurgeriesAt(name, AddendPosition(e)) = {}
    ELSE /\ Rewritten(e).r_type = R_X86_64_GLOB_DAT
         /\ Rewritten(e).r_sym = OriginalTable(e[1])[e[2]].r_sym
         /\ \A name \in DOMAIN md.surgeries : SurgeriesAt(name, AddendPosition(e)) = {}

\* C17 (as stated): every GLOB_DAT entry that targets an application symbol
\* becomes RELATIVE with symbol 0 and records exactly one SurgeryEntry under
\* the symbol's name, Absolute, 8 bytes wide, at the file position of the
\* entry's addend field; other GLOB_DAT entries keep their type and record
\* nothing.
C17_OneSurgeryPerGlobDat ==
    RelocationsRewritten =>
      \A e \in GlobDats :
        /\ GlobDatRewritten(e)
        /\ TargetsApp(e) =>
             Cardinality(SurgeriesAt(TargetName(e), AddendPosition(e))) = 1

\* C17 (amended): such an entry records as many equal SurgeryEntry values as
\* the host has GLOB_DAT relocations that target the same symbol: exactly
\* one when the entry is the only one for its symbol.
C17_SurgeryPerGlobDatOfSymbol ==
    RelocationsRewritten =>
      \A e \in GlobDats :
        /\ GlobDatRewritten(e)
        /\ TargetsApp(e) =>
             Cardinality(SurgeriesAt(TargetName(e), AddendPosition(e)))
               = Cardinality({ o \in GlobDats : TargetName(o) = TargetName(e) })

\* Two GLOB_DAT entries for one application symbol, each recorded twice.
C17_Witness ==
    /\ RelocationsRewritten
    /\ \E e, o \in GlobDats :
         /\ e # o
         /\ TargetsApp(e)
         /\ TargetName(o) = TargetName(e)
         /\ Cardinality(SurgeriesAt(TargetName(e), AddendPosition(e))) = 2
         /\ Rewritten(e).r_type = R_X86_64_RELATIVE

(***************************************************************************)
(* Call-site discovery (elf.rs 270-322), seen right after the scan.        *)
(***************************************************************************)
Scanned == pc = "scan"

\* The instructions of the scanned sections: <<s, i>> for instruction i of
\* section s.
ScannedInsts ==
    UNION { { <<s, i>> : i \in 1..Len(host.code[s]) } : s \in Range(text_sections(host)) }

InstAt(e) == host.code[e[1]][e[2]]

\* A near call or jump whose target is the PLT stub of an application
\* function.
BranchesToAppStub(e) ==
    /\ InstAt(e).op_kind = "NearBranch"
    /\ ContainsKey(app_func_addresses_of(host), InstAt(e).target)

\* The surgeries, <<name, k>>, recorded relative to an instruction end.
SurgeriesRelativeTo(next_ip) ==
    UNION { { <<name, k>> : k \in { j \in 1..Len(md.surgeries[name]) :
                                      md.surgeries[name][j].virtual_offset
                                        = Relative(next_ip) } } :
            name \in DOMAIN md.surgeries }

RequiredSurgeries == { e \in AllSurgeries : e.func \in Range(md.app_functions) }

UnsupportedWidths == { e \in RequiredSurgeries : e.s.size \notin {4, 8} }

\* The bytes of the file at the translated position of an entry.
SiteBytes(file, s) == read_bytes(file, update_physical_offset(md, s.file_offset), s.size)

SiteUntouched(file, s) ==
    \A k \in 0..(s.size - 1) :
      (update_physical_offset(md, s.file_offset) + k) \notin DOMAIN file.bytes

\* C19: a merge that completed wrote every entry, 4 or 8 bytes wide, as the
\* little-endian bytes of the value truncated to the width, at the
\* translated file offset; patching entered with an entry of another width
\* aborts and writes nothing at that entry.
C19_WidthsFourAndEight ==
    /\ [](Merged =>
            \A e \in RequiredSurgeries :
              /\ e.s.size \in {4, 8}
              /\ SiteBytes(out, e.s)
                   = to_le_bytes(FinalAddress(e.func)
                                   - (IF e.s.virtual_offset.kind = "Relative"
                                      THEN update_virtual_offset(md, e.s.virtual_offset.a)
                                      ELSE 0),
                                 e.s.size))
    /\ [][(pc = "patch" /\ UnsupportedWidths # {})
            => /\ pc' = "failed"
               /\ \A e \in UnsupportedWidths : SiteUntouched(out', e.s)]_vars

\* Patching was reached and refused an entry 1 or 2 bytes wide.
C19_Witness ==
    /\ pc = "failed"
    /\ out # None /\ Len(out.phdrs) = out.ehdr.e_phnum
    /\ out.phdrs[out.ehdr.e_phnum].p_type = PT_LOAD
    /\ UndefinedFunctions = {}
    /\ \E e \in UnsupportedWidths : e.s.size \in {1, 2} /\ SiteUntouched(out, e.s)

(***************************************************************************)
(* Relocation values.                                                      *)
(***************************************************************************)

PcRelative == {"Relative", "PltRelative"}

SupportedKinds == PcRelative \cup {"Absolute"}

\* The address of the target of a resolved relocation.
TargetAddress(rel) ==
    LET sym == app.symbols[rel.target + 1]
    IN  IF DefinedByHost(sym)
        THEN update_virtual_offset(md, md.roc_symbol_vaddresses[to_string(sym.name)])
        ELSE LayoutAddress(sym)

\* The bytes of the output at the file position of a relocation.
RelocationBytes(r) == read_bytes(out, r.place[1] + r.rel.offset, r.rel.size \div 8)

\* Every resolved relocation of a merged output has a supported kind, and a
\* Relative or PltRelative one is 32 or 64 bits wide and its site holds the
\* little-endian bytes of target - (section address + offset) + addend.
DisplacementsWritten ==
    Merged =>
      \A r \in { x \in ProcessedRelocations : Resolves(x.rel) } :
         /\ r.rel.kind \in SupportedKinds
         /\ r.rel.kind \in PcRelative =>
              /\ r.rel.size \in {32, 64}
              /\ RelocationBytes(r)
                   = to_le_bytes((TargetAddress(r.rel) - (r.place[2] + r.rel.offset))
                                   + r.rel.addend,
                                 r.rel.size \div 8)

UnsupportedKinds == { r \in ProcessedRelocations : r.rel.kind \notin SupportedKinds }

UnsupportedSizes ==
    { r \in ProcessedRelocations : r.rel.kind \in PcRelative /\ r.rel.size \notin {32, 64} }

\* C20 as stated: a merged output holds the displacement of every resolved
\* Relative or PltRelative relocation, 32 or 64 bits wide, at its file
\* position; relocating an application with a relocation of any other kind
\* than Relative, PltRelative or Absolute, or with a Relative or PltRelative
\* one of another width, aborts.
C20_UnsupportedKindAborts ==
    /\ [] DisplacementsWritten
    /\ [][(pc = "move" /\ (UnsupportedKinds \cup UnsupportedSizes) # {})
            => pc' = "failed"]_vars

\* C20, amended: the same, where the relocation of the unsupported kind or
\* width has a target that resolves; a relocation of any kind against an
\* always-linked symbol that neither the application nor the host defines
\* is skipped, and the merge may complete.
C20_ResolvedUnsupportedAborts ==
    /\ [] DisplacementsWritten
    /\ [][(pc = "move" /\ \E r \in UnsupportedKinds \cup UnsupportedSizes : Resolves(r.rel))
            => pc' = "failed"]_vars
    /\ [](Merged =>
            \A r \in UnsupportedKinds \cup UnsupportedSizes :
              /\ ~Resolves(r.rel)
              /\ to_string(app.symbols[r.rel.target + 1].name) \in ALWAYS_LINKED)

\* A merged output with a 64-bit and a 32-bit displacement written, one of
\* them negative.
C20_Witness ==
    /\ Merged
    /\ \E r \in ProcessedRelocations :
         /\ r.rel.kind = "Relative" /\ r.rel.size = 64 /\ Resolves(r.rel)
         /\ RelocationBytes(r)
              = to_le_bytes((TargetAddress(r.rel) - (r.place[2] + r.rel.offset))
                              + r.rel.addend, 8)
    /\ \E r \in ProcessedRelocations :
         /\ r.rel.kind = "PltRelative" /\ r.rel.size = 32 /\ Resolves(r.rel)
         /\ r.rel.addend # 0
         /\ (TargetAddress(r.rel) - (r.place[2] + r.rel.offset)) + r.rel.addend < 0
         /\ RelocationBytes(r)
              = to_le_bytes((TargetAddress(r.rel) - (r.place[2] + r.rel.offset))
                              + r.rel.addend, 4)

\* A merge completed although the application has a relocation of an
\* unsupported kind: its target is always-linked and undefined.
C20_SkippedWitness == Merged /\ UnsupportedKinds # {}

(***************************************************************************)
(* Load-time relocations.                                                  *)
(***************************************************************************)

RECURSIVE RelocationsFrom(_)
\* The relocations of the processed sections from the k-th one on, in the
\* order the merger visits them: records [rel, place].
RelocationsFrom(k) ==
    LET secs == processed_sections(app)
    IN  IF k > Len(secs) THEN << >>
        ELSE [ i \in 1..Len(app.sections[secs[k] + 1].relocations) |->
                 [ rel |-> app.sections[secs[k] + 1].relocations[i],
                   place |-> merge.section_offset_map[secs[k]] ] ]
             \o RelocationsFrom(k + 1)

\* The Absolute relocations with a resolved target, in that order.
ResolvedAbsolutes ==
    SelectSeq(RelocationsFrom(1), LAMBDA r : r.rel.kind = "Absolute" /\ Resolves(r.rel))

\* The segment of the duplicated relocation table.
RelaSegments ==
    { i \in DOMAIN out.phdrs :
        /\ out.phdrs[i].p_type = PT_LOAD
        /\ out.phdrs[i].p_offset = md.new_rela_paddr + md.ph_shift_bytes }

\* The file position of the i-th slot behind the duplicated table, i from 1.
AppendedSlot(i) ==
    md.new_rela_paddr + md.ph_shift_bytes + md.rela_size + (i - 1) * Rela64Size

\* After merging, the slots behind the duplicated table hold one RELATIVE
\* entry per resolved Absolute relocation, in order; its addend is the
\* resolved target, plus the addend of the relocation when with_addend.
AppendedEntries(with_addend) ==
    Merged =>
      /\ RelaSegments # {}
      /\ merge.current_rela_index = Len(ResolvedAbsolutes)
      /\ DOMAIN out.app_relas = { AppendedSlot(i) : i \in 1..Len(ResolvedAbsolutes) }
      /\ \A i \in 1..Len(ResolvedAbsolutes) :
           LET r == ResolvedAbsolutes[i]
           IN  out.app_relas[AppendedSlot(i)]
                 = Rela(r.place[2] + r.rel.offset, 0, R_X86_64_RELATIVE,
                        TargetAddress(r.rel) + (IF with_addend THEN r.rel.addend ELSE 0))

\* C21 as stated: the i-th resolved Absolute relocation has a RELATIVE
\* entry in the i-th slot behind the duplicated table, with the address of
\* the site as offset and the resolved target as addend.
C21_AddendIsResolvedTarget == AppendedEntries(FALSE)

\* C21, amended: the same, with the resolved target plus the addend of the
\* Absolute relocation as the addend of the entry.
C21_AddendIsTargetPlusAddend == AppendedEntries(TRUE)

\* Two entries were appended, one of them for a relocation with an addend.
C21_Witness ==
    /\ Merged
    /\ Len(ResolvedAbsolutes) = 2
    /\ \E i \in 1..2 : ResolvedAbsolutes[i].rel.addend # 0
    /\ out.app_relas[AppendedSlot(2)].r_offset
         = ResolvedAbsolutes[2].place[2] + ResolvedAbsolutes[2].rel.offset

(***************************************************************************)
(* Sizes after the load-time relocations.                                  *)
(***************************************************************************)

\* What the header pass adds to the value of a dynamic entry.
DynGrowth(d) ==
    IF d.d_tag = DT_RELASZ THEN merge.current_rela_index * Rela64Size
    ELSE IF d.d_tag = DT_RELACOUNT THEN merge.current_rela_index
    ELSE 0

\* The index of the segment preprocessing appended for the duplicated table:
\* the last header it wrote.
RelaSegmentIndex == Len(out.phdrs)

\* C22: the header pass of the merger adds the count of appended entries
\* to DT_RELACOUNT and their size to DT_RELASZ, adds their size to the file
\* and the memory size of the segment preprocessing appended, and leaves
\* the sizes of every other program header preprocessing wrote as they are.
C22_SizesGrowByAppended ==
    [][pc = "headers" =>
         /\ DOMAIN out'.dyns = DOMAIN out.dyns
         /\ \A i \in DOMAIN out.dyns :
              out'.dyns[i] = Dyn(out.dyns[i].d_tag, out.dyns[i].d_val + DynGrowth(out.dyns[i]))
         /\ out.phdrs[RelaSegmentIndex].p_offset = md.new_rela_paddr + md.ph_shift_bytes
         /\ out'.phdrs[RelaSegmentIndex].p_filesz
              = out.phdrs[RelaSegmentIndex].p_filesz + merge.current_rela_index * Rela64Size
         /\ out'.phdrs[RelaSegmentIndex].p_memsz
              = out.phdrs[RelaSegmentIndex].p_memsz + merge.current_rela_index * Rela64Size
         /\ \A i \in 1..(RelaSegmentIndex - 1) :
              /\ out'.phdrs[i].p_filesz = out.phdrs[i].p_filesz
              /\ out'.phdrs[i].p_memsz = out.phdrs[i].p_memsz]_vars

\* A merged output with two appended entries: both dynamic fields are
\* there, and the segment of the table is 48 bytes longer than the table.
C22_Witness ==
    /\ Merged
    /\ merge.current_rela_index = 2
    /\ \E i \in DOMAIN out.dyns : out.dyns[i].d_tag = DT_RELASZ /\ out.dyns[i].d_val >= 48
    /\ \E i \in DOMAIN out.dyns : out.dyns[i].d_tag = DT_RELACOUNT /\ out.dyns[i].d_val >= 2
    /\ \E i \in RelaSegments :
         /\ out.phdrs[i].p_filesz = md.rela_size + 48
         /\ out.phdrs[i].p_memsz = md.rela_size + 48
         /\ md.rela_size > 0

(***************************************************************************)
(* Symbols of the application functions.                                   *)
(***************************************************************************)

\* The symbol of the application that defines the function.
AppFunctionSymbol(f) ==
    CHOOSE sym \in Range(app.symbols) : to_string(sym.name) = f /\ DefinedByApp(sym)

\* The entries of the output's symbol tables for the function.
SymbolEntries(f) ==
    (IF ContainsKey(md.dynamic_symbol_indices, f)
     THEN { out.dynsym[md.dynamic_symbol_indices[f] + 1] } ELSE {})
    \cup (IF ContainsKey(md.static_symbol_indices, f)
          THEN { out.symtab[md.static_symbol_indices[f] + 1] } ELSE {})

\* After merging, every symbol table entry of a required function has the
\* final address and the size of the application's symbol.
SymbolsCarryAddressAndSize ==
    Merged =>
      \A f \in Range(md.app_functions) :
        \A e \in SymbolEntries(f) :
          /\ e.kind = "defined"
          /\ e.address = FinalAddress(f)
          /\ e.size = AppFunctionSymbol(f).size

\* The index, from 0, of the header of the new code section: the last of
\* the section header table.
NewCodeSectionIndex == out.ehdr.e_shnum - 1

\* The index, from 0, of the header of the new code segment: the last of
\* the program header table.
NewCodeSegmentIndex == out.ehdr.e_phnum - 1

\* C23: after merging, the dynamic and the static symbol table entry of
\* every required function carry the function's final address, the size
\* of the application's symbol, and the index of the header of the new
\* code section in the section header table.
C23_SymbolsInNewCodeSection ==
    /\ SymbolsCarryAddressAndSize
    /\ Merged =>
         /\ Len(out.shdrs) = out.ehdr.e_shnum
         /\ out.shdrs[NewCodeSectionIndex + 1].sh_offset = merge.new_text_section_offset
         /\ \A f \in Range(md.app_functions) :
              \A e \in SymbolEntries(f) : e.st_shndx = NewCodeSectionIndex

\* What the merger writes: the index of the new code segment in the program
\* header table.
SymbolsInNewCodeSegment ==
    Merged =>
      \A f \in Range(md.app_functions) :
        \A e \in SymbolEntries(f) : e.st_shndx = NewCodeSegmentIndex

\* A merged output with both entries of a function written, where the two
\* tables have different lengths.
SymbolsWritten ==
    /\ Merged
    /\ NewCodeSectionIndex # NewCodeSegmentIndex
    /\ \E f \in Range(md.app_functions) :
         /\ ContainsKey(md.dynamic_symbol_indices, f)
         /\ ContainsKey(md.static_symbol_indices, f)
         /\ \A e \in SymbolEntries(f) : e.st_shndx = NewCodeSegmentIndex

(***************************************************************************)
(* Stubs of the application functions.                                     *)
(***************************************************************************)

\* The required functions with a recorded stub.
StubbedFunctions == { f \in Range(md.app_functions) : ContainsKey(md.plt_addresses, f) }

\* The 16 bytes of the output at the translated file offset of the stub.
StubBytes(f) ==
    read_bytes(out, update_physical_offset(md, md.plt_addresses[f][1]), PLT_ADDRESS_OFFSET)

\* The translated address of the stub.
StubAddress(f) == update_virtual_offset(md, md.plt_addresses[f][2])

\* No call site of the function was recorded.
Uncalled(f) == ~ContainsKey(md.surgeries, f) \/ md.surgeries[f] = << >>

\* C24: after merging, the stub of every required function that has one is
\* the byte 0xE9, a 32-bit little-endian displacement d with translated
\* stub address + 5 + d = final address of the function, and 11 bytes
\* 0x90, with or without recorded call sites.
C24_StubJumpsToFunction ==
    Merged =>
      \A f \in StubbedFunctions :
        /\ Len(StubBytes(f)) = 16
        /\ StubBytes(f)[1] = 233
        /\ StubAddress(f) + 5 + from_le_bytes(SubSeq(StubBytes(f), 2, 5)) = FinalAddress(f)
        /\ \A i \in 6..16 : StubBytes(f)[i] = 144

\* A merged output with a patched stub of a function without call sites
\* and one of a function with call sites, behind a shift.
C24_Witness ==
    /\ Merged
    /\ md.ph_virtual_shift_start > 0
    /\ \E f \in StubbedFunctions : Uncalled(f) /\ StubBytes(f)[1] = 233
    /\ \E f \in StubbedFunctions : ~Uncalled(f) /\ StubBytes(f)[1] = 233

(***************************************************************************)
(* SpecLayout: the merge of one host with applications whose sections vary *)
(* in size and number.                                                     *)
(***************************************************************************)
MaxExtra == 2

\* Sections an application may have behind the ones of MkApp; one is
\* shorter in the file than in memory, one is read-only data by the end of
\* its name and exception data by its start.
ExtraSections ==
    { Section(<<".", "t", "e", "x", "t", ".", "c", "o", "l", "d">>, 16, 16, << >>),
      Section(<<".", "b", "s", "s", ".", "b", "i", "g">>, 4100, 0, << >>),
      Section(<<".", "r", "o", "d", "a", "t", "a", ".", "s", "t", "r">>, 8, 8, << >>),
      Section(<<".", "d", "a", "t", "a", ".", "r", "e", "l", ".", "r", "o", ".", "l">>, 24, 24, << >>),
      Section(<<".", "r", "o", "d", "a", "t", "a", ".", "c", "s", "t">>, 8, 4, << >>),
      Section(<<".", "e", "h", "_", "t", "a", "b", ".", "r", "e", "l", ".", "r", "o">>, 24, 24,
              << Reloc(0, "Absolute", 64, AppLayout.roc_alloc, 0),
                 Reloc(8, "Absolute", 64, AppLayout.main, 0),
                 Reloc(16, "Absolute", 64, AppLayout.str, 0) >>) }

LayoutApps ==
    { [ MkApp(<< <<"Absolute", 64, AppLayout.roc_alloc, 0>> >>, TRUE) EXCEPT
          !.sections[2].size = rodata_size, !.sections[2].file_size = rodata_size,
          !.sections[3].size = bss_size,
          !.sections = @ \o extras ] :
        rodata_size \in {0, 32}, bss_size \in {0, 16},
        extras \in SeqsUpTo(ExtraSections, MaxExtra) }

LayoutHosts == { MkHost([ BaseParams EXCEPT !.vbase = 4096, !.relaDyn = <<"GD2", "REL">> ]) }

InitLayout == InitWith(LayoutHosts, {None}, LayoutApps)

SpecLayout == InitLayout /\ [][Next]_vars

\* The layout pass completed.
LaidOut == pc \in {"move", "headers", "patch", "flush", "merged"}

IsBss(sec) == starts_with(sec.name, <<".", "b", "s", "s">>)

IsText(sec) == starts_with(sec.name, <<".", "t", "e", "x", "t">>)

\* 1 for read-only data, 2 for zero-initialized data, 3 for code.
SectionClass(sec) == IF IsText(sec) THEN 3 ELSE IF IsBss(sec) THEN 2 ELSE 1

\* The k-th section the layout pass visits and the place it was given.
Placed(k) == app.sections[processed_sections(app)[k] + 1]

PlaceOf(k) == merge.section_offset_map[processed_sections(app)[k]]

\* The cursors after the k-th section.
CursorsAfter(k) ==
    << PlaceOf(k)[1] + (IF IsBss(Placed(k)) THEN 0 ELSE Placed(k).size),
       PlaceOf(k)[2] + Placed(k).size >>

\* C25: the layout pass visits read-only data, then zero-initialized data,
\* then code; along that order file offsets and addresses do not decrease
\* and file ranges do not overlap; a .bss section moves only the virtual
\* cursor, by its size, any other section both cursors by its size, and
\* the next section is placed at the aligned cursors.
C25_LayoutOrderAndCursors ==
    LaidOut =>
      LET n == Len(processed_sections(app))
      IN  /\ \A k \in 1..n : \A l \in (k + 1)..n :
                /\ SectionClass(Placed(k)) <= SectionClass(Placed(l))
                /\ PlaceOf(k)[1] <= PlaceOf(l)[1]
                /\ PlaceOf(k)[2] <= PlaceOf(l)[2]
                /\ PlaceOf(k)[1] + Placed(k).file_size <= PlaceOf(l)[1]
          /\ \A k \in 1..n :
                /\ ~IsBss(Placed(k)) => Placed(k).file_size = Placed(k).size
                /\ IF k < n
                   THEN /\ PlaceOf(k + 1)[1]
                            = align_by_constraint(CursorsAfter(k)[1], MIN_SECTION_ALIGNMENT)
                        /\ PlaceOf(k + 1)[2]
                            = align_to_offset_by_constraint(CursorsAfter(k)[2],
                                PlaceOf(k + 1)[1], md.load_align_constraint)
                        /\ IsBss(Placed(k)) => PlaceOf(k + 1)[1] = PlaceOf(k)[1]
                   ELSE <<merge.offset, merge.virt_offset>> = CursorsAfter(k)

\* A layout with two sections of each class, the zero-initialized ones of
\* a size above 0, and code placed at the file offset of the last of them.
C25_Witness ==
    /\ pc = "move"
    /\ \A c \in 1..3 :
         Cardinality({ k \in 1..Len(processed_sections(app)) :
                         SectionClass(Placed(k)) = c /\ Placed(k).size > 0 }) >= 2
    /\ \E k \in 1..(Len(processed_sections(app)) - 1) :
         /\ IsBss(Placed(k)) /\ IsText(Placed(k + 1))
         /\ PlaceOf(k + 1)[1] = PlaceOf(k)[1]
         /\ PlaceOf(k + 1)[2] > PlaceOf(k)[2]

(***************************************************************************)
(* SpecAdvisory: the disassembly one decoded instruction at a time, with   *)
(* the flag indirect_warning_given of Surgeries and the count of           *)
(* advisories printed.  probe holds the state of the scan: the text        *)
(* section sec (an index of text_sections), the instruction i in it.       *)
(***************************************************************************)
AdvisoryPool == { <<"indirect", 0>>, <<"other", 0>>, <<"call32", 2>>, <<"far", 0>> }

AdvisoryHosts ==
    { MkHost([ BaseParams EXCEPT !.calls = calls ]) : calls \in SeqsUpTo(AdvisoryPool, MaxCalls) }

InitAdvisory == InitWith(AdvisoryHosts, {None}, {None})

\* elf.rs 494-496, 188-203: Surgeries::new, then the first text section.
ScanStart ==
    /\ pc = "disassemble"
    /\ text_sections(host) # << >>
    /\ \E verbose \in BOOLEAN :
         probe' = [ kind |-> "decode", verbose |-> verbose, sec |-> 1, i |-> 1,
                    surgeries |-> Surgeries_new(app_syms_of(host)),
                    indirect_warning_given |-> FALSE, advisories |-> 0 ]
    /\ pc' = "decoding"
    /\ UNCHANGED <<overflow_checks, host, md, deps, out, app, merge, metadata>>

\* The instructions of the text section the scan is in.
ScannedSection == text_sections(host)[probe.sec]

\* elf.rs 265-349: one round of the loop over the decoder, or the step to
\* the next text section when the decoder is at the end (elf.rs 231-233).
DecodeOut ==
    /\ pc = "decoding"
    /\ LET insts == host.code[ScannedSection]
       IN  IF probe.i > Len(insts)
           THEN IF probe.sec < Len(text_sections(host))
                THEN /\ probe' = [ probe EXCEPT !.sec = @ + 1, !.i = 1 ]
                     /\ pc' = "decoding"
                ELSE /\ pc' = "decoded"
                     /\ UNCHANGED probe
           ELSE LET inst == insts[probe.i]
                    surgeries == append_text_section(host.shdrs[ScannedSection + 1],
                                                     << inst >>, 1,
                                                     app_func_addresses_of(host),
                                                     probe.surgeries)
                    warn == emit_indirect_warning(inst, probe.indirect_warning_given,
                                                  probe.verbose)
                IN  IF surgeries = None
                    THEN Abort /\ UNCHANGED probe
                    ELSE /\ probe' = [ probe EXCEPT
                                         !.i = @ + 1,
                                         !.surgeries = surgeries,
                                         !.indirect_warning_given = @ \/ warn,
                                         !.advisories = IF warn THEN @ + 1 ELSE @ ]
                         /\ pc' = "decoding"
    /\ UNCHANGED <<overflow_checks, host, md, deps, out, app, merge, metadata>>

NextAdvisory == Preprocess \/ ScanStart \/ DecodeOut

SpecAdvisory == InitAdvisory /\ [][NextAdvisory]_vars

Decoding == pc \in {"decoding", "decoded"}

\* The scan is at an indirect call or jump.
AtIndirect ==
    /\ pc = "decoding"
    /\ probe.i <= Len(host.code[ScannedSection])
    /\ host.code[ScannedSection][probe.i].indirect

\* The number of indirect calls and jumps in a text section.
IndirectIn(sec) ==
    Cardinality({ i \in 1..Len(host.code[sec]) : host.code[sec][i].indirect })

\* C26: in one run the advisory is printed at most once; once it was
\* printed no later instruction prints it; a step over an indirect call or
\* jump leaves the surgeries as they are; and the scan, step by step, ends
\* with the surgeries of the scan as a whole.
C26_AdvisoryAtMostOnce ==
    /\ [](Decoding =>
            /\ probe.advisories <= 1
            /\ probe.indirect_warning_given <=> probe.advisories = 1)
    /\ [][(pc = "decoding" /\ probe.indirect_warning_given)
            => probe'.advisories = probe.advisories]_vars
    /\ [][AtIndirect => probe'.surgeries = probe.surgeries]_vars
    /\ [](pc = "decoded" =>
            probe.surgeries = append_text_sections(host, app_func_addresses_of(host),
                                                   Surgeries_new(app_syms_of(host)),
                                                   probe.verbose))

\* A completed scan that printed the advisory once, with indirect
\* instructions in two text sections, several in one of them, and a call
\* site recorded.
C26_Witness ==
    /\ pc = "decoded"
    /\ probe.advisories = 1
    /\ Cardinality({ s \in Range(text_sections(host)) : IndirectIn(s) >= 1 }) >= 2
    /\ \E s \in Range(text_sections(host)) : IndirectIn(s) >= 2
    /\ \E f \in DOMAIN probe.surgeries : probe.surgeries[f] # << >>

(***************************************************************************)
(* The address of the new code segment.                                    *)
(***************************************************************************)

\* The header of the new code segment and of the new code section: the last
\* of each table.
CodeSegment == out.phdrs[out.ehdr.e_phnum]

CodeSection == out.shdrs[out.ehdr.e_shnum]

\* The headers name the address the layout pass gave the first code section.
CodeHeadersAtLayoutAddress ==
    /\ CodeSegment.p_vaddr = merge.new_text_section_vaddr
    /\ CodeSection.sh_addr = merge.new_text_section_vaddr

\* The application has zero-initialized data.
HasBss ==
    \E k \in 1..Len(processed_sections(app)) : IsBss(Placed(k)) /\ Placed(k).size > 0

\* C27: after merging, the address in the program header of the new code
\* segment and in the header of the new code section is the address the
\* layout pass gave the lowest-placed code section of the application,
\* with or without .bss sections.
C27_CodeSegmentAtLayoutAddress ==
    Merged =>
      /\ CodeSegment.p_offset = merge.new_text_section_offset
      /\ CodeSection.sh_offset = merge.new_text_section_offset
      /\ CodeHeadersAtLayoutAddress

\* The same for applications without zero-initialized data.
CodeSegmentAtLayoutAddressWithoutBss ==
    (Merged /\ ~HasBss) => CodeHeadersAtLayoutAddress

\* With zero-initialized data the headers are below the layout's address.
CodeSegmentBelowLayoutAddressWithBss ==
    (Merged /\ HasBss) =>
      /\ CodeSegment.p_vaddr < merge.new_text_section_vaddr
      /\ CodeSegment.p_vaddr
           = merge.new_rodata_section_vaddr
             + (merge.new_text_section_offset - merge.new_rodata_section_offset)

MergedWithBss == Merged /\ HasBss

MergedWithoutBss == Merged /\ ~HasBss

(***************************************************************************)
(* Room for the load-time relocations.                                     *)
(***************************************************************************)

\* The relocation pass completed.
Relocated == pc \in {"headers", "patch", "flush", "merged"}

\* The file offset of the first copied section of the application.
FirstAppOffset ==
    Min({ merge.section_offset_map[s][1] : s \in Range(processed_sections(app)) })

\* The written entries end before the first copied section begins.
EntriesBeforeSections ==
    \A at \in DOMAIN out.app_relas : at + Rela64Size <= FirstAppOffset

\* The sections whose Absolute relocations were counted up front.
IsCounted(sec) ==
    /\ ~starts_with(sec.name, <<".", "d", "e", "b", "u", "g">>)
    /\ ~starts_with(sec.name, <<".", "e", "h">>)

AllProcessedCounted ==
    \A k \in 1..Len(processed_sections(app)) : IsCounted(Placed(k))

\* C28: after the relocation pass the number of appended entries is at most
\* the number of slots reserved before the first section of the
\* application, and no entry reaches into the bytes of a copied section.
C28_AppendedWithinReserved ==
    Relocated =>
      /\ merge.current_rela_index <= merge.absolute_relocation_count
      /\ EntriesBeforeSections

\* The same for applications whose processed sections were all counted;
\* the slots begin where the section header table of the preprocessed host
\* was.
AppendedWithinReservedWhenCounted ==
    (Relocated /\ AllProcessedCounted) =>
      /\ merge.current_rela_index <= merge.absolute_relocation_count
      /\ EntriesBeforeSections
      /\ AppendedSlot(1) + merge.absolute_relocation_count * Rela64Size <= FirstAppOffset

\* Entries were appended, fewer than the slots reserved.
AppendedFewerThanReserved ==
    /\ Relocated /\ AllProcessedCounted
    /\ merge.current_rela_index >= 1
    /\ merge.current_rela_index < merge.absolute_relocation_count

\* More entries were appended than slots reserved, the last one over the
\* first bytes of the application.
AppendedOverSection ==
    /\ Relocated
    /\ merge.current_rela_index > merge.absolute_relocation_count
    /\ ~EntriesBeforeSections

(***************************************************************************)
(* The tail index of the removal of jump slots.                            *)
(***************************************************************************)

\* The entries of a relocation section as elf.rs 843-847 loads them.
LoadedRelocations(sec) == SubSeq(out.relas[sec.sec_index], 1, sec.sec_size \div Rela64Size)

\* The value of j behind the loop of elf.rs 903-909, were it a signed
\* integer: len - 1, less one for every removed entry.
TailIndexAfter(sec) ==
    (Len(LoadedRelocations(sec)) - 1)
      - Len(to_remove_of(LoadedRelocations(sec), deps.app_sym_indices))

\* The relocation sections for which j goes below 0.
Underflowing ==
    { k \in 1..Len(rela_sections_of(host.shdrs)) :
        TailIndexAfter(rela_sections_of(host.shdrs)[k]) < 0 }

\* C29: the removal of the application's jump slots never takes the tail
\* index below 0 and completes, for every relocation table.
C29_TailIndexNeverNegative ==
    [][pc = "relocations" => (Underflowing = {} /\ pc' = "dynamic")]_vars

\* What holds: the step completes unless j goes below 0 in a build that
\* checks overflow, and then it aborts.
TailUnderflowAbortsCheckedBuild ==
    [][pc = "relocations" =>
         IF Underflowing # {} /\ overflow_checks THEN pc' = "failed" ELSE pc' = "dynamic"]_vars

\* The tables whose tail index goes below 0 are the empty ones and the
\* ones that hold only jump slots of the application.
UnderflowingTables ==
    pc = "relocations" =>
      \A k \in 1..Len(rela_sections_of(host.shdrs)) :
        LET table == LoadedRelocations(rela_sections_of(host.shdrs)[k])
        IN  k \in Underflowing
              <=> \A i \in 1..Len(table) :
                    /\ table[i].r_type = R_X86_64_JUMP_SLOT
                    /\ table[i].r_sym \in Range(deps.app_sym_indices)

\* Preprocessing was aborted by the removal over a table of two jump slots
\* of the application.
FullTableAborted ==
    /\ pc = "failed"
    /\ deps # None /\ out # None
    /\ overflow_checks
    /\ \E s \in DOMAIN host.relas :
         /\ Len(host.relas[s]) = 2
         /\ \A i \in 1..2 : IsAppJumpSlot(host.relas[s][i])

\* The same over an empty table.
EmptyTableAborted ==
    /\ pc = "failed"
    /\ deps # None /\ out # None
    /\ overflow_checks
    /\ \E s \in DOMAIN host.relas : host.relas[s] = << >>
    /\ \A s \in DOMAIN host.relas :
         \/ host.relas[s] = << >>
         \/ \E i \in 1..Len(host.relas[s]) : ~IsAppJumpSlot(host.relas[s][i])

(***************************************************************************)
(* Entries of the global offset tables.                                    *)
(***************************************************************************)

\* The global offset tables were rewritten.
GotRewritten == pc \in {"save", "preprocessed", "translated"}

\* The entries of the host's tables that hold an address: section and
\* position.
GotAddresses ==
    UNION { { <<s, i>> : i \in { k \in 1..Len(host.got[s]) : host.got[s][k] # 0 } } :
            s \in DOMAIN host.got }

\* C30: preprocessing rewrites every entry of every global offset table
\* that holds a virtual address v to the virtual translation of v, also
\* when the physical and the virtual shift boundary differ.
C30_GotEntriesTranslatedVirtually ==
    GotRewritten =>
      \A e \in GotAddresses :
        out.got[e[1]][e[2]] = update_virtual_offset(md, host.got[e[1]][e[2]])

\* What the entries are rewritten to: the physical translation.
GotEntriesTranslatedPhysically ==
    GotRewritten =>
      \A e \in GotAddresses :
        out.got[e[1]][e[2]] = update_physical_offset(md, host.got[e[1]][e[2]])

\* An entry was rewritten to something else than its virtual translation,
\* in a geometry whose shift boundaries differ.
GotEntryMistranslated ==
    /\ GotRewritten
    /\ md.ph_virtual_shift_start # md.ph_physical_shift_start
    /\ \E e \in GotAddresses :
         out.got[e[1]][e[2]] # update_virtual_offset(md, host.got[e[1]][e[2]])

====
